---- MODULE Spec2Model ----
(***************************************************************************)
(* A model of the wsknn recommender: the WSKNN facade (constructor, fit,    *)
(* recommend, set_model_params), its sampler, similarity scorer and        *)
(* ranking engine, the weighting functions, and the Sessions event store.  *)
(*                                                                         *)
(* Python values are tagged pairs <<type, payload>>, so that the type      *)
(* checks of the code (isinstance, type(a) != type(b)) can be modelled.    *)
(* A dict is a sequence of <<key, value>> pairs in insertion order.        *)
(* Floats are modelled as exact rationals <<num, den>>; log10 is a table   *)
(* rounded to hundredths.                                                  *)
(***************************************************************************)
EXTENDS Integers, Sequences, FiniteSets, TLC

VARIABLES
    self,       \* the WSKNN object: a record of its attributes
    op,         \* the last operation called on the facade
    args,       \* the arguments of that call
    result,     \* what that call returned or raised
    sessions_obj, \* the Sessions object: session_items_actions_map
    sess_result   \* what the last Sessions call returned or raised

vars == <<self, op, args, result, sessions_obj, sess_result>>

-----------------------------------------------------------------------------
(* Python values *)

None == <<"None", 0>>
I(n) == <<"int", n>>
S(s) == <<"str", s>>
B(b) == <<"bool", b>>
L(seq) == <<"list", seq>>
D(pairs) == <<"dict", pairs>>

TypeOf(v) == v[1]
Val(v) == v[2]
\* the number an int stands for; True and False count as 1 and 0
IntVal(v) == IF TypeOf(v) = "bool" THEN (IF Val(v) THEN 1 ELSE 0) ELSE Val(v)

\* isinstance(v, int): bool is a subclass of int in Python
IsInt(v) == TypeOf(v) \in {"int", "bool"}
IsStr(v) == TypeOf(v) = "str"
IsBool(v) == TypeOf(v) = "bool"
\* isinstance(v, Iterable)
IsIterable(v) == TypeOf(v) \in {"list", "str", "dict"}

\* dict helpers
Keys(d) == {Val(d)[i][1] : i \in DOMAIN Val(d)}
KeyList(d) == [i \in DOMAIN Val(d) |-> Val(d)[i][1]]
Has(d, k) == k \in Keys(d)
Get(d, k) == Val(d)[CHOOSE i \in DOMAIN Val(d) : Val(d)[i][1] = k][2]

SeqToSet(s) == {s[i] : i \in DOMAIN s}

\* Python's seq[:n]
Slice(s, n) ==
    IF n >= 0
    THEN SubSeq(s, 1, IF n < Len(s) THEN n ELSE Len(s))
    ELSE SubSeq(s, 1, IF Len(s) + n > 0 THEN Len(s) + n ELSE 0)

\* the arrangement of s under a table of comparisons: before[i][j] says
\* that s[i] sorts strictly before s[j]; elements that compare equal keep
\* their order
Sorted(s, before) ==
    [k \in DOMAIN s |->
        s[CHOOSE i \in DOMAIN s :
            k = 1 + Cardinality({j \in DOMAIN s :
                      \/ before[j][i]
                      \/ (~before[i][j] /\ j < i)})]]

\* list.sort(key=...) is stable: elements that compare equal keep their
\* order. Before(a, b) is "key(a) sorts strictly before key(b)".
SortBy(s, Before(_, _)) ==
    Sorted(s, [i \in DOMAIN s |-> [j \in DOMAIN s |-> Before(s[i], s[j])]])

-----------------------------------------------------------------------------
(* Rational arithmetic for Python floats *)

RECURSIVE Gcd(_, _)
Gcd(a, b) == IF b = 0 THEN a ELSE Gcd(b, a % b)

Abs(n) == IF n < 0 THEN -n ELSE n

Norm(n, d) ==
    LET g == Gcd(Abs(n), Abs(d))
        sgn == IF d < 0 THEN -1 ELSE 1
    IN  IF n = 0 THEN <<0, 1>> ELSE <<sgn * (n \div g), sgn * (d \div g)>>

Rat(n) == <<n, 1>>
RAdd(a, b) == Norm(a[1] * b[2] + b[1] * a[2], a[2] * b[2])
RMul(a, b) == Norm(a[1] * b[1], a[2] * b[2])
RDiv(a, b) == Norm(a[1] * b[2], a[2] * b[1])
RLess(a, b) == a[1] * b[2] < b[1] * a[2]
RLeq(a, b) == a[1] * b[2] <= b[1] * a[2]

RECURSIVE RSum(_)
RSum(s) == IF s = <<>> THEN Rat(0) ELSE RAdd(s[1], RSum(Tail(s)))

-----------------------------------------------------------------------------
(* Weighting function library *)

\* 100 * log10(2.7) / log10(k + 1.7), rounded, for k = 0, 1, 2, ...
LogRatioTable == <<187, 100, 76, 64, 57, 52, 49, 46, 44, 42, 40, 39>>
LogRatio(k) ==
    IF k + 1 <= Len(LogRatioTable) THEN <<LogRatioTable[k + 1], 100>>
    ELSE <<38, 100>>

\* a variant that counts the position from 0
linear_session_score_from_zero(i, length) == Norm(i, length)

linear_session_score(i, length) == Norm(i + 1, length)
log_session_score(i, length) == Norm(LogRatio(length - i)[1], 100)
\* a variant that squares (i + 1) / length
quadratic_session_score_from_one(i, length) ==
    Norm((i + 1) * (i + 1), length * length)

quadratic_session_score(i, length) == Norm(i * i, length * length)

weight_session_items(fn_name, element_pos, length) ==
    CASE fn_name = "linear" -> linear_session_score(element_pos, length)
      [] fn_name = "log" -> log_session_score(element_pos, length)
      [] fn_name = "quadratic" -> quadratic_session_score(element_pos, length)

\* a variant without the cut at position 10
linear_item_score_uncut(i) == Norm(10 - i, 9)

linear_item_score(i) == IF i < 10 THEN Norm(10 - i, 9) ELSE Rat(0)
inv_pos_item_score(i) == Norm(1, i)
log_item_score(i) == Norm(LogRatio(i)[1], 100)
quadratic_item_score(i) == Norm(1, i * i)

weight_item_score(fn_name, element_pos) ==
    CASE fn_name = "linear" -> linear_item_score(element_pos)
      [] fn_name = "inv" -> inv_pos_item_score(element_pos)
      [] fn_name = "log" -> log_item_score(element_pos)
      [] fn_name = "quadratic" -> quadratic_item_score(element_pos)
      [] OTHER -> Rat(1)

-----------------------------------------------------------------------------
(* Similarity scorer: wsknn/utils/calc.py and WSKNN._calculate_similarity *)

Ok(v) == [err |-> "ok", val |-> v]
Err(e) == [err |-> e, val |-> <<>>]

Min(a, b) == IF a < b THEN a ELSE b

\* record[i] for a Python list, i counted from 0
Entry(rec, i) == rec[i + 1]
\* session[0], the sequence of items of a session record or of a query
ItemsOf(rec) == Val(Entry(rec, 0))

\* number as a rational: ints and floats (a float's payload is a rational)
Num(v) == IF TypeOf(v) = "float" THEN Val(v) ELSE Rat(Val(v))

\* pos_weights of _calculate_similarity: a dict item -> weight, filled in
\* query order (enumerate() counts idx from 0 and count = idx + 1), a later
\* occurrence of an item overwriting the weight and keeping the dict slot
RECURSIVE DictSet(_, _, _)
DictSet(pairs, k, v) ==
    IF pairs = <<>> THEN <<<<k, v>>>>
    ELSE IF pairs[1][1] = k THEN <<<<k, v>>>> \o Tail(pairs)
    ELSE <<pairs[1]>> \o DictSet(Tail(pairs), k, v)

RECURSIVE PosWeightsUpTo(_, _, _)
PosWeightsUpTo(fn_name, session_items, n) ==
    IF n = 0 THEN <<>>
    ELSE DictSet(PosWeightsUpTo(fn_name, session_items, n - 1),
                 session_items[n],
                 weight_session_items(fn_name, n, Len(session_items)))

pos_weights(fn_name, session_items) ==
    D(PosWeightsUpTo(fn_name, session_items, Len(session_items)))

RECURSIVE SumWeights(_, _)
SumWeights(set, mapped_items_weights) ==
    IF set = {} THEN Rat(0)
    ELSE LET x == CHOOSE y \in set : TRUE
         IN  RAdd(Get(mapped_items_weights, x),
                  SumWeights(set \ {x}, mapped_items_weights))

\* a variant that averages over the common items
weight_set_pair_common_average(first, second, mapped_items_weights) ==
    IF first \cap second # {}
    THEN RDiv(SumWeights(first \cap second, mapped_items_weights),
              Rat(Cardinality(first \cap second)))
    ELSE Rat(0)

weight_set_pair(first, second, mapped_items_weights) ==
    IF Len(Val(mapped_items_weights)) >= 1
    THEN RDiv(SumWeights(first \cap second, mapped_items_weights),
              Rat(Len(Val(mapped_items_weights))))
    ELSE Rat(0)

_calculate_similarity(m, session_items, possible_neighbours) ==
    IF \E k \in DOMAIN possible_neighbours :
          ~Has(m.session_item_map, possible_neighbours[k])
    THEN Err("KeyError")
    ELSE Ok([k \in DOMAIN possible_neighbours |->
              LET other == possible_neighbours[k]
                  other_items ==
                      SeqToSet(ItemsOf(Get(m.session_item_map, other)))
              IN  <<other,
                    weight_set_pair(
                        SeqToSet(session_items), other_items,
                        pos_weights(Val(m.weighting_function),
                                    session_items))>>])

-----------------------------------------------------------------------------
(* Neighbor sampler *)

\* Iterating a Python set visits its members in an order the program does
\* not control; ord is that order, a sequence holding every possible member
SetToList(set, ord) == SelectSeq(ord, LAMBDA x : x \in set)

\* the first entry of errs that is not "ok", or "ok"
FirstOf(errs) ==
    IF \A k \in DOMAIN errs : errs[k] = "ok" THEN "ok"
    ELSE errs[CHOOSE k \in DOMAIN errs :
                /\ errs[k] # "ok"
                /\ \A j \in 1..(k - 1) : errs[j] = "ok"]

\* the first error raised while a loop visits lst, or "ok"
FirstErr(lst, ErrOf(_)) == FirstOf([k \in DOMAIN lst |-> ErrOf(lst[k])])

\* rec[idx] for an attribute idx that may be None or out of range
IndexErr(rec, idx) ==
    IF TypeOf(idx) # "int" THEN "TypeError"
    ELSE IF Val(idx) >= Len(rec) \/ Val(idx) < -Len(rec) THEN "IndexError"
    ELSE "ok"
At(rec, idx) ==
    IF Val(idx) >= 0 THEN rec[Val(idx) + 1] ELSE rec[Len(rec) + Val(idx) + 1]

_get_sessions_with_event(m, raw_sessions, ord) ==
    LET RowErr(session_sample) ==
            IF IndexErr(session_sample, m.required_sampling_event_index)
                   # "ok"
            THEN IndexErr(session_sample, m.required_sampling_event_index)
            ELSE IF TypeOf(At(session_sample,
                              m.required_sampling_event_index)) # "list"
            THEN "TypeError"
            ELSE "ok"
        ErrOf(sess) ==
            IF ~Has(m.session_item_map, sess) THEN "KeyError"
            ELSE RowErr(Get(m.session_item_map, sess))
        Filter(first_err) ==
            IF first_err # "ok" THEN Err(first_err)
            ELSE Ok({sess \in raw_sessions :
                       m.required_sampling_event \in
                         SeqToSet(Val(At(Get(m.session_item_map, sess),
                                         m.required_sampling_event_index)))})
    IN  Filter(FirstErr(SetToList(raw_sessions, ord), ErrOf))

\* a variant that ranks the sessions with the most common items first
_sampling_common_descending(m, sessions, session, ord) ==
    LET lst == SetToList(sessions, ord)
        common(ses) ==
            Cardinality(SeqToSet(ItemsOf(Get(m.session_item_map, ses)))
                        \cap SeqToSet(ItemsOf(session)))
        rank == SortBy(lst, LAMBDA a, b : common(a) > common(b))
        sample_size == Min(IntVal(m.possible_neighbors_sample_size),
                           Cardinality(sessions))
    IN  IF \E ses \in sessions : ~Has(m.session_item_map, ses)
        THEN Err("KeyError")
        ELSE Ok(Slice(rank, sample_size))

_sampling_common(m, sessions, session, ord) ==
    LET lst == SetToList(sessions, ord)
        common(ses) ==
            Cardinality(SeqToSet(ItemsOf(Get(m.session_item_map, ses)))
                        \cap SeqToSet(ItemsOf(session)))
        rank == SortBy(lst, LAMBDA a, b : common(a) < common(b))
        sample_size == Min(IntVal(m.possible_neighbors_sample_size),
                           Cardinality(sessions))
    IN  IF \E ses \in sessions : ~Has(m.session_item_map, ses)
        THEN Err("KeyError")
        ELSE Ok(Slice(rank, sample_size))

_sampling_random(m, sessions, ord) ==
    LET lst == SetToList(sessions, ord)
        sample_size == Min(IntVal(m.possible_neighbors_sample_size),
                           Cardinality(sessions))
    IN  \* random.sample raises on a negative sample size; any arrangement
        \* of sample_size members can be drawn
        IF sample_size < 0 THEN Err("ValueError")
        ELSE Ok(SubSeq(lst, 1, sample_size))

\* list < list in Python: lexicographic
RECURSIVE ListLess(_, _)
ListLess(a, b) ==
    IF b = <<>> THEN FALSE
    ELSE IF a = <<>> THEN TRUE
    ELSE IF RLess(Num(a[1]), Num(b[1])) THEN TRUE
    ELSE IF RLess(Num(b[1]), Num(a[1])) THEN FALSE
    ELSE ListLess(Tail(a), Tail(b))

_sampling_recent(m, sessions, ord) ==
    LET lst == SetToList(sessions, ord)
        ts(sid) == Val(Entry(Get(m.session_item_map, sid), 1))
        rank == SortBy(lst, LAMBDA a, b : ListLess(ts(b), ts(a)))
        sample_size == Min(IntVal(m.possible_neighbors_sample_size),
                           Cardinality(sessions))
    IN  IF \E ses \in sessions : ~Has(m.session_item_map, ses)
        THEN Err("KeyError")
        ELSE Ok(Slice(rank, sample_size))

\* np.mean of a row of weights
Mean(entry) ==
    IF TypeOf(entry) # "list" THEN Num(entry)
    ELSE IF Val(entry) = <<>> THEN Rat(0)
    ELSE RDiv(RSum([k \in DOMAIN Val(entry) |-> Num(Val(entry)[k])]),
              Rat(Len(Val(entry))))

_sampling_weighted_events(m, sessions, ord) ==
    LET ErrOf(ses) ==
            IF ~Has(m.session_item_map, ses) THEN "KeyError"
            ELSE IndexErr(Get(m.session_item_map, ses),
                          m.sampling_event_weights_index)
        w(ses) == Mean(At(Get(m.session_item_map, ses),
                          m.sampling_event_weights_index))
        sample_size == Min(IntVal(m.possible_neighbors_sample_size),
                           Cardinality(sessions))
        Sample(lst, first_err) ==
            IF first_err # "ok" THEN Err(first_err)
            ELSE Ok(Slice(SortBy(lst, LAMBDA a, b : RLess(w(b), w(a))),
                          sample_size))
    IN  Sample(SetToList(sessions, ord),
               FirstErr(SetToList(sessions, ord), ErrOf))

_sample_possible_neighbors(m, all_sessions, session, ord) ==
    CASE m.sampling_strategy = S("random") ->
            _sampling_random(m, all_sessions, ord)
      [] m.sampling_strategy = S("recent") ->
            _sampling_recent(m, all_sessions, ord)
      [] m.sampling_strategy = S("common_items") ->
            _sampling_common(m, all_sessions, session, ord)
      [] m.sampling_strategy = S("weighted_events") ->
            _sampling_weighted_events(m, all_sessions, ord)
      [] OTHER -> Err("TypeError")

\* a variant that takes the sessions recorded against every item of the
\* item map
CandidatesOfEveryItem(m, session) ==
    IF m.item_session_map = None THEN {}
    ELSE UNION {SeqToSet(Val(Entry(Get(m.item_session_map, s_item), 0)))
                  : s_item \in Keys(m.item_session_map)}

\* the sessions recorded against the items of a query: the members of the
\* sets that _possible_neighbors builds and the sampler iterates
Candidates(m, session) ==
    IF m.item_session_map = None THEN {}
    ELSE UNION {SeqToSet(Val(Entry(Get(m.item_session_map, s_item), 0)))
                  : s_item \in SeqToSet(ItemsOf(session))
                                 \cap Keys(m.item_session_map)}

_possible_neighbors(m, session, ord) ==
    LET session_items == SeqToSet(ItemsOf(session))
        Sample(filtered) ==
            IF filtered.err # "ok" THEN Err(filtered.err)
            ELSE _sample_possible_neighbors(m, filtered.val, session, ord)
        Filter(common_sessions) ==
            IF m.required_sampling_event # None
            THEN Sample(_get_sessions_with_event(m, common_sessions, ord))
            ELSE Sample(Ok(common_sessions))
    IN  IF m.item_session_map = None
        THEN \* "s_item in None" raises as soon as the loop runs once
             IF session_items = {}
             THEN _sample_possible_neighbors(m, {}, session, ord)
             ELSE Err("TypeError")
        ELSE Filter(Candidates(m, session))

\* a variant that cuts the scored sessions without sorting them
_nearest_neighbors_unsorted(m, session, ord) ==
    LET Closest(rank) ==
            Ok(Slice(rank, Min(IntVal(m.number_of_closest_neighbors),
                               Len(rank))))
        Rank(sims) ==
            IF sims.err # "ok" THEN Err(sims.err) ELSE Closest(sims.val)
        Score(possible_neighbor_sessions) ==
            IF possible_neighbor_sessions.err # "ok"
            THEN Err(possible_neighbor_sessions.err)
            ELSE Rank(_calculate_similarity(m, ItemsOf(session),
                                            possible_neighbor_sessions.val))
    IN  Score(_possible_neighbors(m, session, ord))

_nearest_neighbors(m, session, ord) ==
    LET Closest(rank) ==
            Ok(Slice(rank, Min(IntVal(m.number_of_closest_neighbors),
                               Len(rank))))
        Rank(sims) ==
            IF sims.err # "ok" THEN Err(sims.err)
            ELSE Closest(SortBy(sims.val, LAMBDA a, b : RLess(b[2], a[2])))
        Score(possible_neighbor_sessions) ==
            IF possible_neighbor_sessions.err # "ok"
            THEN Err(possible_neighbor_sessions.err)
            ELSE Rank(_calculate_similarity(m, ItemsOf(session),
                                            possible_neighbor_sessions.val))
    IN  Score(_possible_neighbors(m, session, ord))

-----------------------------------------------------------------------------
(* Ranking engine *)

Reverse(s) == [k \in DOMAIN s |-> s[Len(s) + 1 - k]]

\* bool(v) for the flags of the facade
Truthy(v) ==
    CASE TypeOf(v) = "bool" -> Val(v)
      [] TypeOf(v) = "int" -> Val(v) # 0
      [] TypeOf(v) = "None" -> FALSE
      [] OTHER -> TRUE

\* a variant that weights the step reached after the whole scan
NeighborDecayTerminal(m, n_items, session_items) ==
    LET rev == Reverse(session_items)
        hits == {k \in DOMAIN rev : rev[k] \in SeqToSet(n_items)}
        step == IF hits = {} THEN Len(rev) + 1
                ELSE CHOOSE k \in hits : \A j \in hits : k <= j
    IN  weight_item_score(Val(m.ranking_strategy), step)

\* the decay of one neighbor: the scan of the reversed query stops at the
\* first item the neighbor holds; without such an item decay stays 1
NeighborDecay(m, n_items, session_items) ==
    LET rev == Reverse(session_items)
        hits == {k \in DOMAIN rev : rev[k] \in SeqToSet(n_items)}
    IN  IF hits = {} THEN Rat(1)
        ELSE LET step == CHOOSE k \in hits : \A j \in hits : k <= j
             IN  weight_item_score(Val(m.ranking_strategy), step)

\* scores is the dict of _rank_items, as pairs <<item, score>> in
\* insertion order
\* a variant that scores the items of the query as well, whatever
\* return_events_from_session says
RECURSIVE VoteItemsNoSkip(_, _, _, _, _)
VoteItemsNoSkip(m, scores, n_items, session_items, vote) ==
    IF n_items = <<>> THEN scores
    ELSE
      LET n_item == Head(n_items)
          old == {k \in DOMAIN scores : scores[k][1] = n_item}
          new_score ==
              IF old = {} THEN vote
              ELSE RAdd(scores[CHOOSE k \in old : TRUE][2], vote)
      IN  VoteItemsNoSkip(m, DictSet(scores, n_item, new_score),
                          Tail(n_items), session_items, vote)

RECURSIVE VoteItems(_, _, _, _, _)
VoteItems(m, scores, n_items, session_items, vote) ==
    IF n_items = <<>> THEN scores
    ELSE
      LET n_item == Head(n_items)
          skip == /\ n_item \in SeqToSet(session_items)
                  /\ ~Truthy(m.return_events_from_session)
          old == {k \in DOMAIN scores : scores[k][1] = n_item}
          new_score ==
              IF old = {} THEN vote
              ELSE RAdd(scores[CHOOSE k \in old : TRUE][2], vote)
          updated == IF skip THEN scores
                     ELSE DictSet(scores, n_item, new_score)
      IN  VoteItems(m, updated, Tail(n_items), session_items, vote)

RECURSIVE RankNeighbors(_, _, _, _)
RankNeighbors(m, scores, closest_neighbors, session_items) ==
    IF closest_neighbors = <<>> THEN scores
    ELSE
      LET neighbor == Head(closest_neighbors)
          n_items == ItemsOf(Get(m.session_item_map, neighbor[1]))
          decay == NeighborDecay(m, n_items, session_items)
          scored == VoteItems(m, scores, n_items, session_items,
                              RMul(neighbor[2], decay))
      IN  RankNeighbors(m, scored, Tail(closest_neighbors), session_items)

_rank_items(m, closest_neighbors, session) ==
    RankNeighbors(m, <<>>, closest_neighbors, ItemsOf(session))

-----------------------------------------------------------------------------
(* Per-session prediction *)

ReturnList(v) == [kind |-> "list", err |-> "ok", val |-> v]
ReturnNone == [kind |-> "None", err |-> "ok", val |-> <<>>]
ReturnDict(v) == [kind |-> "dict", err |-> "ok", val |-> v]
ReturnFloat(v) == [kind |-> "float", err |-> "ok", val |-> v]
Raise(e) == [kind |-> "raise", err |-> e, val |-> <<>>]

\* how many random.choice draws _get_more_items makes
AddItemsSize(m, recommendations) ==
    IF IntVal(m.n_of_recommendations) - Len(recommendations) > 0
    THEN IntVal(m.n_of_recommendations) - Len(recommendations)
    ELSE 0

\* a variant that draws n_of_recommendations items whatever the length
\* of the list it extends
_get_more_items_full(m, recommendations) ==
    IF m.item_session_map = None THEN {Raise("AttributeError")}
    ELSE IF IntVal(m.n_of_recommendations) > 0
            /\ Val(m.item_session_map) = <<>>
    THEN {Raise("IndexError")}
    ELSE {ReturnList(recommendations \o
                     [k \in DOMAIN draws |-> <<draws[k], Rat(0)>>]) :
            draws \in [1..IntVal(m.n_of_recommendations) ->
                          Keys(m.item_session_map)]}

\* every list _get_more_items can return: each random.choice draws any
\* key of the item map
_get_more_items(m, recommendations) ==
    IF m.item_session_map = None THEN {Raise("AttributeError")}
    ELSE IF AddItemsSize(m, recommendations) > 0
            /\ Val(m.item_session_map) = <<>>
    THEN {Raise("IndexError")}
    ELSE {ReturnList(recommendations \o
                     [k \in DOMAIN draws |-> <<draws[k], Rat(0)>>]) :
            draws \in [1..AddItemsSize(m, recommendations) ->
                          Keys(m.item_session_map)]}

\* a variant that truncates without sorting by score
RankedUnsorted(m, neighbors, session) ==
    Slice(_rank_items(m, neighbors, session), IntVal(m.n_of_recommendations))

\* a variant that keeps one pair more than n_of_recommendations
RankedOneMore(m, neighbors, session) ==
    LET Top(ranked_items) ==
            Slice(SortBy(ranked_items, LAMBDA a, b : RLess(b[2], a[2])),
                  IntVal(m.n_of_recommendations) + 1)
    IN  Top(_rank_items(m, neighbors, session))

\* the recommendations of _predict before any padding
Ranked(m, neighbors, session) ==
    LET Top(ranked_items) ==
            Slice(SortBy(ranked_items, LAMBDA a, b : RLess(b[2], a[2])),
                  IntVal(m.n_of_recommendations))
    IN  Top(_rank_items(m, neighbors, session))

\* a variant that pads short lists whether or not recommend_any is set
_predict_always_pads(m, session, ord) ==
    LET Pad(recommendations) ==
            IF Len(recommendations) < IntVal(m.n_of_recommendations)
            THEN _get_more_items(m, recommendations)
            ELSE {ReturnList(recommendations)}
        Recs(neighbors) ==
            IF neighbors.err # "ok" THEN {Raise(neighbors.err)}
            ELSE IF Len(neighbors.val) = 0
            THEN _get_more_items(m, <<>>)
            ELSE Pad(Ranked(m, neighbors.val, session))
    IN  Recs(_nearest_neighbors(m, session, ord))

\* every outcome of _predict(session) when the candidate set is iterated
\* in the order ord
_predict(m, session, ord) ==
    LET Pad(recommendations) ==
            IF /\ Truthy(m.recommend_any)
               /\ Len(recommendations) < IntVal(m.n_of_recommendations)
            THEN _get_more_items(m, recommendations)
            ELSE {ReturnList(recommendations)}
        Recs(neighbors) ==
            IF neighbors.err # "ok" THEN {Raise(neighbors.err)}
            ELSE IF Len(neighbors.val) = 0
            THEN IF Truthy(m.recommend_any)
                 THEN _get_more_items(m, <<>>)
                 ELSE {ReturnNone}
            ELSE Pad(Ranked(m, neighbors.val, session))
    IN  Recs(_nearest_neighbors(m, session, ord))

-----------------------------------------------------------------------------
(* Validation layer: wsknn/utils/errors.py, wsknn/model/validators.py *)

check_data_dimension(record, dimensions) == Len(record) >= dimensions

check_numeric_type_instance(value) ==
    IF TypeOf(value) = "str" THEN FALSE
    ELSE TypeOf(value) \in {"int", "float", "bool"}

\* the error of container[0] for a nested entry, or "ok"
FirstElemErr(entry) ==
    IF TypeOf(entry) \notin {"list", "str"} THEN "TypeError"
    ELSE IF TypeOf(entry) = "list" /\ Val(entry) = <<>> THEN "IndexError"
    ELSE "ok"

\* the error of record[i][0], or "ok"
NestedFirstErr(record, i) ==
    IF Len(record) <= i THEN "IndexError" ELSE FirstElemErr(record[i + 1])

\* type(record[i][0])
NestedFirstType(record, i) ==
    IF TypeOf(record[i + 1]) = "str" THEN "str"
    ELSE TypeOf(Val(record[i + 1])[1])

\* a variant that looks at the timestamps before the types of the rows
CheckInputTimestampsFirst(mapping, sample_key) ==
    LET sample_rec == Get(mapping, sample_key)
    IN  IF ~check_data_dimension(sample_rec, 2)
        THEN "InvalidDimensionsError"
        ELSE IF \/ TypeOf(sample_rec[2]) = "str"
                \/ /\ TypeOf(sample_rec[2]) = "list"
                   /\ \E k \in DOMAIN Val(sample_rec[2]) :
                        ~check_numeric_type_instance(Val(sample_rec[2])[k])
        THEN "InvalidTimestampError"
        ELSE IF \E k \in DOMAIN sample_rec : ~IsIterable(sample_rec[k])
        THEN "TypeError"
        ELSE "ok"

\* _check_sessions_input and _check_items_input run the same checks on one
\* record drawn by random.choice; sample_key is the key drawn
CheckInput(mapping, sample_key) ==
    LET sample_rec == Get(mapping, sample_key)
    IN  IF ~check_data_dimension(sample_rec, 2)
        THEN "InvalidDimensionsError"
        ELSE IF \E k \in DOMAIN sample_rec : ~IsIterable(sample_rec[k])
        THEN "TypeError"
        ELSE IF \/ TypeOf(sample_rec[2]) = "str"
                \/ /\ TypeOf(sample_rec[2]) = "list"
                   /\ \E k \in DOMAIN Val(sample_rec[2]) :
                        ~check_numeric_type_instance(Val(sample_rec[2])[k])
        THEN "InvalidTimestampError"
        ELSE "ok"

_check_sessions_input(sessions, sample_key) == CheckInput(sessions, sample_key)
_check_items_input(items, sample_key) == CheckInput(items, sample_key)

\* a variant that does not compare the types of the timestamps
validate_mapping_dtypes_ids_only(sessions, items, sessions_key, items_key) ==
    LET s_rec == Get(sessions, sessions_key)
        i_rec == Get(items, items_key)
    IN  IF NestedFirstErr(s_rec, 0) # "ok" THEN NestedFirstErr(s_rec, 0)
        ELSE IF NestedFirstErr(s_rec, 1) # "ok" THEN NestedFirstErr(s_rec, 1)
        ELSE IF NestedFirstErr(i_rec, 0) # "ok" THEN NestedFirstErr(i_rec, 0)
        ELSE IF NestedFirstErr(i_rec, 1) # "ok" THEN NestedFirstErr(i_rec, 1)
        ELSE IF NestedFirstType(i_rec, 0) # TypeOf(sessions_key)
        THEN "TypeError"
        ELSE IF TypeOf(items_key) # NestedFirstType(s_rec, 0)
        THEN "TypeError"
        ELSE "ok"

validate_mapping_dtypes(sessions, items, sessions_key, items_key) ==
    LET s_rec == Get(sessions, sessions_key)
        i_rec == Get(items, items_key)
        s_type_session_map == TypeOf(sessions_key)
        i_type_session_map == NestedFirstType(s_rec, 0)
        ts_type_session_map == NestedFirstType(s_rec, 1)
        i_type_item_map == TypeOf(items_key)
        s_type_item_map == NestedFirstType(i_rec, 0)
        ts_type_item_map == NestedFirstType(i_rec, 1)
    IN  \* the six lookups come first, each may raise
        IF NestedFirstErr(s_rec, 0) # "ok" THEN NestedFirstErr(s_rec, 0)
        ELSE IF NestedFirstErr(s_rec, 1) # "ok" THEN NestedFirstErr(s_rec, 1)
        ELSE IF NestedFirstErr(i_rec, 0) # "ok" THEN NestedFirstErr(i_rec, 0)
        ELSE IF NestedFirstErr(i_rec, 1) # "ok" THEN NestedFirstErr(i_rec, 1)
        ELSE IF s_type_item_map # s_type_session_map THEN "TypeError"
        ELSE IF i_type_item_map # i_type_session_map THEN "TypeError"
        ELSE IF ts_type_item_map # ts_type_session_map THEN "TypeError"
        ELSE "ok"

-----------------------------------------------------------------------------
(* Inverted index: preprocessing/structure/session_to_item_map.py *)

\* the events of a sessions map in the order the two loops visit them
RECURSIVE EventsOf(_)
EventsOf(pairs) ==
    IF pairs = <<>> THEN <<>>
    ELSE LET session_k == pairs[1][1]
             items == Val(pairs[1][2][1])
             timestamps == Val(pairs[1][2][2])
         IN  [idx \in DOMAIN items |->
                <<session_k, items[idx], timestamps[idx]>>]
             \o EventsOf(Tail(pairs))

\* a variant that keeps the first timestamp seen for a session
AddEventKeepFirst(items_map, ev) ==
    LET at == {k \in DOMAIN items_map : items_map[k][1] = ev[2]}
        k == CHOOSE x \in at : TRUE
    IN  IF at = {} THEN Append(items_map, <<ev[2], <<<<ev[1]>>, <<ev[3]>>>>>>)
        ELSE IF \E j \in DOMAIN items_map[k][2][1] :
                   items_map[k][2][1][j] = ev[1]
        THEN items_map
        ELSE [items_map EXCEPT ![k][2] =
                 <<Append(items_map[k][2][1], ev[1]),
                   Append(items_map[k][2][2], ev[3])>>]

\* items_map after one event; a record of it is <<sessions, timestamps>>
AddEvent(items_map, ev) ==
    LET session_k == ev[1]
        item == ev[2]
        ts == ev[3]
        at == {k \in DOMAIN items_map : items_map[k][1] = item}
    IN  IF at = {} THEN Append(items_map, <<item, <<<<session_k>>, <<ts>>>>>>)
        ELSE
          LET k == CHOOSE x \in at : TRUE
              ses == items_map[k][2][1]
              tss == items_map[k][2][2]
              seen == {j \in DOMAIN ses : ses[j] = session_k}
          IN  IF seen = {}
              THEN [items_map EXCEPT ![k][2] =
                        <<Append(ses, session_k), Append(tss, ts)>>]
              ELSE
                LET session_index ==
                        CHOOSE j \in seen : \A i \in seen : j <= i
                IN  IF RLess(Num(ts), Num(tss[session_index]))
                    THEN [items_map EXCEPT ![k][2][2][session_index] = ts]
                    ELSE items_map

RECURSIVE AddEvents(_, _)
AddEvents(items_map, events) ==
    IF events = <<>> THEN items_map
    ELSE AddEvents(AddEvent(items_map, Head(events)), Tail(events))

\* sort_together(ivalues, key_list=(1,)): both rows reordered by timestamp
SortTogether(ivalues) ==
    LET Unzip(sorted) == <<[k \in DOMAIN sorted |-> sorted[k][1]],
                           [k \in DOMAIN sorted |-> sorted[k][2]]>>
    IN  Unzip(SortBy([k \in DOMAIN ivalues[1] |->
                         <<ivalues[1][k], ivalues[2][k]>>],
                     LAMBDA a, b : RLess(Num(a[2]), Num(b[2]))))

\* the error the loops raise on a record that is not two parallel rows
MapRecordErr(rec) ==
    IF Len(rec) < 2 THEN "IndexError"
    ELSE IF TypeOf(rec[1]) # "list" THEN "TypeError"
    ELSE IF Val(rec[1]) = <<>> THEN "ok"
    ELSE IF TypeOf(rec[2]) # "list" THEN "TypeError"
    ELSE IF Len(Val(rec[2])) < Len(Val(rec[1])) THEN "IndexError"
    ELSE "ok"

map_sessions_to_items(sessions_map, sort_items_map) ==
    LET Rows(ivalues) == <<L(ivalues[1]), L(ivalues[2])>>
        Build(first_err, items_map) ==
            IF first_err # "ok" THEN Err(first_err)
            ELSE Ok(D([k \in DOMAIN items_map |->
                        <<items_map[k][1],
                          IF sort_items_map
                          THEN Rows(SortTogether(items_map[k][2]))
                          ELSE Rows(items_map[k][2])>>]))
    IN  Build(FirstErr([k \in DOMAIN Val(sessions_map) |->
                           Val(sessions_map)[k][2]], MapRecordErr),
              AddEvents(<<>>, EventsOf(Val(sessions_map))))

-----------------------------------------------------------------------------
(* Merging of maps: preprocessing/utils/transform.py *)

\* sort_together(vals1, key_list=(1,)): every row reordered by row 1, the
\* sort being stable; zip() of rows without elements leaves no row at all
SortRows(rows) ==
    LET Column(k) == [r \in DOMAIN rows |-> rows[r][k]]
        Unzip(sorted) ==
            IF sorted = <<>> THEN <<>>
            ELSE [r \in DOMAIN rows |-> [k \in DOMAIN sorted |-> sorted[k][r]]]
    IN  Unzip(SortBy([k \in DOMAIN rows[1] |-> Column(k)],
                     LAMBDA a, b : RLess(Num(a[2]), Num(b[2]))))

\* vals1 with the event idx of vals2 appended to each of its rows
AppendEvent(vals1, vals2, idx) ==
    [r \in DOMAIN vals1 |->
        IF r <= 2 \/ (r = 3 /\ Len(vals2) >= 3) \/ (r = 4 /\ Len(vals2) = 4)
        THEN Append(vals1[r], vals2[r][idx])
        ELSE vals1[r]]

\* vals1 after one pass of the loop body of merge_vals
MergeEvent(vals1, vals2, idx) ==
    LET core_val == vals2[1][idx]
        time_val == vals2[2][idx]
        at == {j \in DOMAIN vals1[1] : vals1[1][j] = core_val}
        Replace(vindex) ==
            IF RLess(Num(time_val), Num(vals1[2][vindex]))
            THEN [r \in DOMAIN vals1 |->
                    IF r = 2 \/ (r = 3 /\ Len(vals2) >= 3)
                             \/ (r = 4 /\ Len(vals2) = 4)
                    THEN [vals1[r] EXCEPT ![vindex] = vals2[r][idx]]
                    ELSE vals1[r]]
            ELSE vals1
    IN  IF at # {}
        THEN Replace(CHOOSE j \in at : \A i \in at : j <= i)
        ELSE AppendEvent(vals1, vals2, idx)

\* a variant of the loop that appends every event of vals2
RECURSIVE MergeEventsKeepAll(_, _, _)
MergeEventsKeepAll(vals1, vals2, idx) ==
    IF idx > Len(vals2[1]) THEN vals1
    ELSE MergeEventsKeepAll(AppendEvent(vals1, vals2, idx), vals2, idx + 1)

\* vals1 after the passes idx, idx + 1, ... of the loop of merge_vals
RECURSIVE MergeEvents(_, _, _)
MergeEvents(vals1, vals2, idx) ==
    IF idx > Len(vals2[1]) THEN vals1
    ELSE MergeEvents(MergeEvent(vals1, vals2, idx), vals2, idx + 1)

\* merge_vals(vals1, vals2); a record is a sequence of rows, each a list
merge_vals(vals1, vals2) ==
    LET Rows(rec) == [r \in DOMAIN rec |-> Val(rec[r])]
        Lists(rows) == [r \in DOMAIN rows |-> L(rows[r])]
    IN  Lists(SortRows(MergeEvents(Rows(vals1), Rows(vals2), 1)))

\* merged after the keys k, k + 1, ... of dict2 have been visited
RECURSIVE MergeKeys(_, _, _, _)
MergeKeys(merged, dict1, dict2, k) ==
    IF k > Len(Val(dict2)) THEN merged
    ELSE
      LET key_d2 == Val(dict2)[k][1]
          d2vals == Val(dict2)[k][2]
          Store(pairs, vals) ==
              IF \E i \in DOMAIN pairs : pairs[i][1] = key_d2
              THEN [i \in DOMAIN pairs |->
                      IF pairs[i][1] = key_d2 THEN <<key_d2, vals>>
                      ELSE pairs[i]]
              ELSE Append(pairs, <<key_d2, vals>>)
      IN  MergeKeys(IF Has(dict1, key_d2)
                    THEN Store(merged, merge_vals(Get(dict1, key_d2), d2vals))
                    ELSE Store(merged, d2vals),
                    dict1, dict2, k + 1)

\* merged = merge_dicts(dict1, dict2)
merge_dicts(dict1, dict2) == D(MergeKeys(Val(dict1), dict1, dict2, 1))

-----------------------------------------------------------------------------
(* The WSKNN facade *)

sampling_strategies == {"common_items", "recent", "random", "weighted_events"}
weighting_functions == {"linear", "log", "quadratic"}
ranking_strategies == {"linear", "log", "quadratic", "inv"}

\* "x in list_of_names" for any Python value x
InNames(v, names) == TypeOf(v) = "str" /\ Val(v) \in names

\* no object: the state before a constructor call has returned
NoObject ==
    [session_item_map |-> None, item_session_map |-> None,
     n_of_recommendations |-> None, number_of_closest_neighbors |-> None,
     possible_neighbors_sample_size |-> None,
     required_sampling_event |-> None, sampling_strategy |-> None,
     weighting_function |-> None, ranking_strategy |-> None,
     return_events_from_session |-> None,
     sampling_event_weights_index |-> None,
     required_sampling_event_index |-> None, recommend_any |-> None]

\* the defaults of the constructor's parameters
CtorDefaults ==
    [number_of_recommendations |-> I(5), number_of_neighbors |-> I(10),
     sampling_strategy |-> S("common_items"), sample_size |-> I(1000),
     weighting_func |-> S("linear"), ranking_strategy |-> S("linear"),
     return_events_from_session |-> B(TRUE),
     required_sampling_event |-> None,
     required_sampling_event_index |-> None,
     sampling_event_weights_index |-> None, recommend_any |-> B(FALSE)]

\* WSKNN.__init__: the error it raises, or "ok"
InitErr(a) ==
    IF a.required_sampling_event # None
          /\ a.required_sampling_event_index = None
    THEN "IndexError"
    ELSE IF a.sampling_strategy = S("weighted_events")
          /\ a.sampling_event_weights_index = None
    THEN "IndexError"
    ELSE IF ~InNames(a.sampling_strategy, sampling_strategies)
    THEN "KeyError"
    ELSE IF ~InNames(a.weighting_func, weighting_functions)
    THEN "KeyError"
    ELSE IF ~InNames(a.ranking_strategy, ranking_strategies)
    THEN "KeyError"
    ELSE "ok"

\* the object a constructor call that returns leaves behind
InitObject(a) ==
    [session_item_map |-> None, item_session_map |-> None,
     n_of_recommendations |-> a.number_of_recommendations,
     number_of_closest_neighbors |-> a.number_of_neighbors,
     possible_neighbors_sample_size |-> a.sample_size,
     required_sampling_event |-> a.required_sampling_event,
     sampling_strategy |-> a.sampling_strategy,
     weighting_function |-> a.weighting_func,
     ranking_strategy |-> a.ranking_strategy,
     return_events_from_session |-> a.return_events_from_session,
     sampling_event_weights_index |-> a.sampling_event_weights_index,
     required_sampling_event_index |-> a.required_sampling_event_index,
     recommend_any |-> a.recommend_any]


\* the items map fit works with: the caller's, or the one derived from
\* the sessions map (which can raise)
fit_items(sessions, items) ==
    IF items = None THEN map_sessions_to_items(sessions, TRUE) ELSE Ok(items)

\* a variant that assigns the sessions map as soon as it is validated,
\* before the items map is
fit_sessions_first(m, sessions, items, derived, k_s, k_vs, k_vi, k_i) ==
    LET fail(e) == [m |-> [m EXCEPT !.session_item_map = sessions], err |-> e]
        check_s == _check_sessions_input(sessions, k_s)
        check_v == validate_mapping_dtypes(sessions, items, k_vs, k_vi)
        check_i == _check_items_input(derived.val, k_i)
    IN  IF Keys(sessions) = {} THEN [m |-> m, err |-> "IndexError"]
        ELSE IF check_s # "ok" THEN [m |-> m, err |-> check_s]
        ELSE IF items = None /\ derived.err # "ok" THEN fail(derived.err)
        ELSE IF items # None /\ Keys(items) = {} THEN fail("IndexError")
        ELSE IF items # None /\ check_v # "ok" THEN fail(check_v)
        ELSE IF Keys(derived.val) = {} THEN fail("IndexError")
        ELSE IF check_i # "ok" THEN fail(check_i)
        ELSE [m |-> [m EXCEPT !.session_item_map = sessions,
                              !.item_session_map = derived.val],
              err |-> "ok"]

\* WSKNN.fit: the object after the call and the error raised, or "ok".
\* derived is fit_items(sessions, items); k_s, k_vs, k_vi and k_i are the
\* keys the four random.choice calls draw
fit(m, sessions, items, derived, k_s, k_vs, k_vi, k_i) ==
    LET fail(e) == [m |-> m, err |-> e]
        check_s == _check_sessions_input(sessions, k_s)
        check_v == validate_mapping_dtypes(sessions, items, k_vs, k_vi)
        check_i == _check_items_input(derived.val, k_i)
    IN  IF Keys(sessions) = {} THEN fail("IndexError")
        ELSE IF check_s # "ok" THEN fail(check_s)
        ELSE IF items = None /\ derived.err # "ok" THEN fail(derived.err)
        ELSE IF items # None /\ Keys(items) = {} THEN fail("IndexError")
        ELSE IF items # None /\ check_v # "ok" THEN fail(check_v)
        ELSE IF Keys(derived.val) = {} THEN fail("IndexError")
        ELSE IF check_i # "ok" THEN fail(check_i)
        ELSE [m |-> [m EXCEPT !.session_item_map = sessions,
                              !.item_session_map = derived.val],
              err |-> "ok"]

\* the keyword parameters of set_model_params and their defaults
ParamNames ==
    {"number_of_recommendations", "number_of_neighbors", "sampling_strategy",
     "sample_size", "weighting_func", "ranking_strategy",
     "return_events_from_session", "required_sampling_event",
     "recommend_any"}

Param(settings, name) ==
    IF Has(settings, S(name)) THEN Get(settings, S(name))
    ELSE IF name = "recommend_any" THEN B(FALSE)
    ELSE None

\* a variant that stores a name without looking it up
SetFieldAnyName(st, value, valid_type, valid_name, field) ==
    IF st.err # "ok" \/ value = None THEN st
    ELSE IF ~valid_type THEN [st EXCEPT !.err = "TypeError"]
    ELSE [st EXCEPT !.m = [st.m EXCEPT ![field] = value]]

\* one "if <param> is not None" block: st is the object and error so far
SetField(st, value, valid_type, valid_name, field) ==
    IF st.err # "ok" \/ value = None THEN st
    ELSE IF ~valid_type THEN [st EXCEPT !.err = "TypeError"]
    ELSE IF ~valid_name THEN [st EXCEPT !.err = "KeyError"]
    ELSE [st EXCEPT !.m = [st.m EXCEPT ![field] = value]]

\* WSKNN.set_model_params(**settings): the object after the call and the
\* error raised, or "ok"; the fields are set one after another and an
\* error stops the call where it is raised
set_model_params(m, settings) ==
    LET v(name) == Param(settings, name)
        s0 == [m |-> m, err |-> "ok"]
        s1 == SetField(s0, v("number_of_recommendations"),
                       IsInt(v("number_of_recommendations")), TRUE,
                       "n_of_recommendations")
        s2 == SetField(s1, v("number_of_neighbors"),
                       IsInt(v("number_of_neighbors")), TRUE,
                       "number_of_closest_neighbors")
        s3 == SetField(s2, v("sampling_strategy"),
                       IsStr(v("sampling_strategy")),
                       InNames(v("sampling_strategy"), sampling_strategies),
                       "sampling_strategy")
        s4 == SetField(s3, v("sample_size"), IsInt(v("sample_size")), TRUE,
                       "possible_neighbors_sample_size")
        s5 == SetField(s4, v("weighting_func"), IsStr(v("weighting_func")),
                       InNames(v("weighting_func"), weighting_functions),
                       "weighting_function")
        s6 == SetField(s5, v("ranking_strategy"),
                       IsStr(v("ranking_strategy")),
                       InNames(v("ranking_strategy"), ranking_strategies),
                       "ranking_strategy")
        s7 == SetField(s6, v("return_events_from_session"),
                       IsBool(v("return_events_from_session")), TRUE,
                       "return_events_from_session")
        s8 == SetField(s7, v("required_sampling_event"),
                       IsStr(v("required_sampling_event"))
                          \/ IsInt(v("required_sampling_event")), TRUE,
                       "required_sampling_event")
        s9 == SetField(s8, v("recommend_any"), IsBool(v("recommend_any")),
                       TRUE, "recommend_any")
    IN  \* an unknown keyword fails the call before its body runs
        IF \E k \in Keys(settings) : Val(k) \notin ParamNames
        THEN [m |-> m, err |-> "TypeError"]
        ELSE s9


\* the orders in which a Python set can be iterated
Orders(set) ==
    {f \in [1..Cardinality(set) -> set] :
        \A i, j \in DOMAIN f : f[i] = f[j] => i = j}

\* every outcome of _predict(session) on m, over the iteration orders of
\* the candidate set and the random draws
PredictOutcomes(m, session) ==
    UNION {_predict(m, session, ord) : ord \in Orders(Candidates(m, session))}

\* a variant that stores the result of the first session under every key
BatchResultFirst(pairs, recs) ==
    LET failed == {k \in DOMAIN pairs : recs[k].kind = "raise"}
    IN  IF failed # {}
        THEN recs[CHOOSE k \in failed : \A j \in failed : k <= j]
        ELSE ReturnDict([k \in DOMAIN pairs |-> <<pairs[k][1], recs[1]>>])

\* the dict comprehension of recommend over a batch, given the outcome of
\* _predict for each session: the first _predict that raises ends the call
BatchResult(pairs, recs) ==
    LET failed == {k \in DOMAIN pairs : recs[k].kind = "raise"}
    IN  IF failed # {}
        THEN recs[CHOOSE k \in failed : \A j \in failed : k <= j]
        ELSE ReturnDict([k \in DOMAIN pairs |-> <<pairs[k][1], recs[k]>>])

\* every outcome of the batch branch of recommend: each session of the
\* batch gets its own iteration order and its own random draws
BatchOutcomes(m, pairs) ==
    LET Combine(outcomes) ==
            {BatchResult(pairs, recs) :
               recs \in {f \in [DOMAIN pairs ->
                                  UNION {outcomes[k] : k \in DOMAIN pairs}] :
                           \A k \in DOMAIN pairs : f[k] \in outcomes[k]}}
    IN  Combine([k \in DOMAIN pairs |->
                    PredictOutcomes(m, Val(pairs[k][2]))])

KeysOrNone(d) == IF d = None \/ Keys(d) = {} THEN {None} ELSE Keys(d)

\* every outcome of fit(sessions, items) on m, over the keys that the
\* random.choice calls of the validators can draw
FitOutcomes(m, sessions, items) ==
    LET Over(derived) ==
            {fit(m, sessions, items, derived, k_s, k_vs, k_vi, k_i) :
               k_s \in KeysOrNone(sessions),
               k_vs \in IF items = None THEN {None} ELSE KeysOrNone(sessions),
               k_vi \in KeysOrNone(items),
               k_i \in KeysOrNone(IF derived.err = "ok" THEN derived.val
                                  ELSE None)}
    IN  Over(fit_items(sessions, items))

-----------------------------------------------------------------------------
(* The Sessions event store: preprocessing/structure/session.py *)

\* time_start before any event (1_000_000_000_000_000 in the source, scaled
\* to the integers of the model checker; every timestamp here is smaller)
TimeStartInit == 1000000000

\* Sessions.__init__
NewSessions(event_action_key, event_action_weights) ==
    [session_items_actions_map |-> D(<<>>),
     time_start |-> TimeStartInit,
     time_end |-> 0,
     longest_items_vector_size |-> 0,
     number_of_sessions |-> 0,
     event_session_key |-> S("sid"),
     event_product_key |-> S("pid"),
     event_time_key |-> S("dt"),
     event_action_key |-> event_action_key,
     action_weights |-> event_action_weights]

_update_timestamps(o, ts) ==
    LET first == IF ts < o.time_start THEN ts ELSE o.time_start
        last == IF ts > o.time_end THEN ts ELSE o.time_end
    IN  [o EXCEPT !.time_start = first, !.time_end = last]

_update_longest_event_sequence_size(o, seq_length) ==
    IF seq_length > o.longest_items_vector_size
    THEN [o EXCEPT !.longest_items_vector_size = seq_length]
    ELSE o

\* the map with rec stored under the k-th key
WithRecord(o, k, rec) ==
    [o EXCEPT !.session_items_actions_map = D([Val(@) EXCEPT ![k][2] = rec])]

\* the record of a session is a sequence of rows, each row a sequence. The
\* item and the timestamp are appended before the action row is looked up,
\* so a record without an action row raises with both already appended
_append_session_item_and_timestamp(o, session, item, timestamp, action) ==
    LET Store(k, rec) ==
            IF action = None
            THEN [o |-> _update_longest_event_sequence_size(
                           _update_timestamps(WithRecord(o, k, rec),
                                              Val(timestamp)),
                           Len(rec[1])),
                  err |-> "ok"]
            ELSE IF Len(rec) < 3
            THEN [o |-> WithRecord(o, k, rec), err |-> "IndexError"]
            ELSE [o |-> _update_longest_event_sequence_size(
                           _update_timestamps(
                               WithRecord(o, k, [rec EXCEPT
                                               ![3] = Append(@, action)]),
                               Val(timestamp)),
                           Len(rec[1])),
                  err |-> "ok"]
        At1(k) ==
            Store(k, [Val(o.session_items_actions_map)[k][2] EXCEPT
                         ![1] = Append(@, item),
                         ![2] = Append(@, timestamp)])
    IN  At1(CHOOSE i \in DOMAIN Val(o.session_items_actions_map) :
               Val(o.session_items_actions_map)[i][1] = session)

\* Sessions.append(event): the object after the call and the error raised
append(o, event) ==
    LET fail(e) == [o |-> o, err |-> e]
        action == IF o.event_action_key # None
                  THEN Get(event, o.event_action_key)
                  ELSE None
        New(session, item, dt) ==
            LET rec == IF action = None THEN <<<<item>>, <<dt>>>>
                       ELSE <<<<item>>, <<dt>>, <<action>>,
                              <<Get(o.action_weights, action)>>>>
            IN  [o |-> _update_longest_event_sequence_size(
                          _update_timestamps(
                              [o EXCEPT
                                 !.session_items_actions_map =
                                     D(Append(Val(@), <<session, rec>>)),
                                 !.number_of_sessions = @ + 1],
                              Val(dt)),
                          1),
                 err |-> "ok"]
    IN  IF \/ ~Has(event, o.event_product_key)
           \/ ~Has(event, o.event_session_key)
           \/ ~Has(event, o.event_time_key)
           \/ (o.event_action_key # None /\ ~Has(event, o.event_action_key))
        THEN fail("KeyError")
        ELSE IF Has(o.session_items_actions_map,
                    Get(event, o.event_session_key))
        THEN _append_session_item_and_timestamp(
                 o, Get(event, o.event_session_key),
                 Get(event, o.event_product_key),
                 Get(event, o.event_time_key), action)
        ELSE IF action # None /\ o.action_weights = None
        THEN fail("TypeError")
        ELSE IF action # None /\ ~Has(o.action_weights, action)
        THEN fail("KeyError")
        ELSE New(Get(event, o.event_session_key),
                 Get(event, o.event_product_key),
                 Get(event, o.event_time_key))

-----------------------------------------------------------------------------
(* Inputs *)

IntList(s) == L([k \in DOMAIN s |-> I(s[k])])
StrList(s) == L([k \in DOMAIN s |-> S(s[k])])
Dict1(k, v) == D(<<<<k, v>>>>)

\* tests/test_wsknn.py, test_wsknn_no_items
TestSessions ==
    D(<< <<S("a"), <<IntList(<<1, 2, 3, 4, 5>>), IntList(<<1, 2, 3, 4, 5>>)>>>>,
         <<S("b"), <<IntList(<<2, 3, 4, 5>>), IntList(<<10, 11, 12, 13>>)>>>> >>)

\* tests/test_wsknn.py, test_wsknn_flow1
TestItems ==
    D(<< <<I(1), <<StrList(<<"a">>), IntList(<<1>>)>>>>,
         <<I(2), <<StrList(<<"a", "b">>), IntList(<<2>>)>>>>,
         <<I(3), <<StrList(<<"a", "b">>), IntList(<<3>>)>>>>,
         <<I(4), <<StrList(<<"a", "b">>), IntList(<<4>>)>>>>,
         <<I(5), <<StrList(<<"a", "b">>), IntList(<<5>>)>>>> >>)

\* three sessions with action labels and event weights; "a" and "b" are
\* equally similar to a query of item 1
Float(n, d) == <<"float", Norm(n, d)>>
EventSessions ==
    D(<< <<S("a"), <<IntList(<<1, 2>>), IntList(<<1, 2>>),
                     StrList(<<"view", "purchase">>),
                     L(<<Float(1, 10), Float(1, 1)>>)>>>>,
         <<S("b"), <<IntList(<<1, 3>>), IntList(<<3, 4>>),
                     StrList(<<"view", "view">>),
                     L(<<Float(1, 10), Float(1, 10)>>)>>>>,
         <<S("c"), <<IntList(<<3, 2, 3>>), IntList(<<5, 6, 7>>),
                     StrList(<<"view", "purchase", "view">>),
                     L(<<Float(1, 10), Float(1, 1), Float(1, 10)>>)>>>> >>)

\* a user-supplied items map for EventSessions that lists session "c"
\* under item 1, which "c" does not hold
LooseItems ==
    D(<< <<I(1), <<StrList(<<"a", "b", "c">>), IntList(<<1, 3, 5>>)>>>>,
         <<I(2), <<StrList(<<"a", "c">>), IntList(<<2, 6>>)>>>>,
         <<I(3), <<StrList(<<"b", "c">>), IntList(<<4, 5>>)>>>> >>)

\* tests/test_wsknn.py, test_wsknn_invalid_dimensions_exception
OneRowSessions ==
    D(<< <<S("A"), <<IntList(<<1, 2, 3, 4>>)>>>>,
         <<S("B"), <<IntList(<<4, 3, 4, 3, 3>>)>>>> >>)
ScalarItems == Dict1(S("0"), <<I(0)>>)

\* tests/test_wsknn.py, test_wsknn_invalid_type_exception
ScalarRowSessions ==
    D(<< <<S("A"), <<I(1), I(2), I(3)>>>>, <<S("B"), <<I(4), I(3)>>>> >>)

\* tests/test_wsknn.py, test_wsknn_invalid_datatypes_exception
SmallSessions == Dict1(S("A"), <<IntList(<<1, 2, 3>>), IntList(<<10, 20, 30>>)>>)
StrKeyItems == Dict1(S("1"), <<StrList(<<"A">>), IntList(<<10>>)>>)

\* tests/test_wsknn.py, test_wsknn_timestamp_type_exception
StrTimeSessions ==
    Dict1(S("A"), <<IntList(<<1, 2, 3>>), StrList(<<"10", "20", "30">>)>>)
StrTimeItems == Dict1(S("0"), <<StrList(<<"A">>), StrList(<<"2022-02-22">>)>>)

\* an items map whose only record has one nested sequence
OneRowItems == Dict1(I(1), <<StrList(<<"A">>)>>)
\* a valid items map for SmallSessions
SmallItems ==
    D(<< <<I(1), <<StrList(<<"A">>), IntList(<<10>>)>>>>,
         <<I(2), <<StrList(<<"A">>), IntList(<<20>>)>>>> >>)
\* a sessions map with one valid record and one record of a single row
MixedSessions ==
    D(<< <<S("A"), <<IntList(<<1, 2>>), IntList(<<10, 20>>)>>>>,
         <<S("B"), <<IntList(<<2>>)>>>> >>)

\* query sessions
Query(items, timestamps) == L(<<IntList(items), IntList(timestamps)>>)


Settings1(k, v) == D(<<<<S(k), v>>>>)
Settings2(k1, v1, k2, v2) == D(<<<<S(k1), v1>>, <<S(k2), v2>>>>)

\* constructor calls of the facade lifecycle
CtorCalls ==
    {[CtorDefaults EXCEPT !.return_events_from_session = B(FALSE)],
     [CtorDefaults EXCEPT !.return_events_from_session = B(FALSE),
                          !.sampling_strategy = S("weighted_events"),
                          !.sampling_event_weights_index = I(3)],
     [CtorDefaults EXCEPT !.required_sampling_event = S("purchase"),
                          !.required_sampling_event_index = I(2),
                          !.number_of_recommendations = I(2)],
     [CtorDefaults EXCEPT !.required_sampling_event = S("purchase")],
     [CtorDefaults EXCEPT !.sampling_strategy = S("weighted_events")],
     [CtorDefaults EXCEPT !.ranking_strategy = S("cubic")]}

\* fit calls of the facade lifecycle: <<sessions, items>>
FitCalls ==
    {<<TestSessions, None>>, <<TestSessions, TestItems>>,
     <<OneRowSessions, ScalarItems>>, <<ScalarRowSessions, ScalarItems>>,
     <<SmallSessions, StrKeyItems>>, <<StrTimeSessions, StrTimeItems>>,
     <<SmallSessions, OneRowItems>>, <<SmallSessions, SmallItems>>,
     <<MixedSessions, None>>, <<MixedSessions, SmallItems>>}

\* settings overrides of the facade lifecycle
SettingsCalls ==
    {Settings2("number_of_recommendations", I(2), "recommend_any", B(TRUE)),
     Settings1("sampling_strategy", S("weighted_events")),
     Settings1("required_sampling_event", S("purchase")),
     Settings1("number_of_neighbors", I(1)),
     Settings1("sampling_strategy", S("nearest")),
     Settings1("number_of_recommendations", S("5")),
     Settings2("number_of_recommendations", I(1), "ranking_strategy", I(3))}

\* settings overrides of the facade lifecycle that have a field of a wrong
\* type or an unknown name, alone or next to another field
FaultySettings ==
    {Settings1("recommend_any", I(1)),
     Settings1("return_events_from_session", S("yes")),
     Settings1("sample_size", Float(5, 2)),
     Settings1("weighting_func", S("cubic")),
     Settings1("ranking_strategy", S("cubic")),
     Settings2("sample_size", S("x"), "sampling_strategy", S("nearest"))}

\* recommend calls with such settings: <<event_stream, settings>>
FaultyRecommendCalls ==
    {<<Query(<<1>>, <<100>>), Settings1("weighting_func", S("cubic"))>>,
     <<Query(<<1>>, <<100>>), Settings1("recommend_any", I(1))>>}

\* recommend calls of the facade lifecycle: <<event_stream, settings>>
RecommendCalls ==
    {<<Query(<<1>>, <<100>>), None>>,
     <<Query(<<9>>, <<100>>), None>>,
     <<Query(<<1>>, <<100>>), Settings1("number_of_recommendations", I(1))>>,
     <<I(5), None>>}

\* the configurations of the engine runs: the constructor call of the
\* tests, with one or two parameters at a time moved away from it
EngineBase == [CtorDefaults EXCEPT !.return_events_from_session = B(FALSE)]

EngineConfigs ==
    {[EngineBase EXCEPT !.sampling_strategy = S(st), !.sample_size = I(sz),
                        !.sampling_event_weights_index = I(3)] :
        st \in sampling_strategies, sz \in {1000, 1}}
    \cup
    {[EngineBase EXCEPT !.weighting_func = S(wf), !.ranking_strategy = S(rs)] :
        wf \in weighting_functions, rs \in ranking_strategies}
    \cup
    {[EngineBase EXCEPT !.number_of_recommendations = I(n)] :
        n \in {2, 1, 0}}
    \cup
    {[EngineBase EXCEPT !.number_of_recommendations = I(n),
                        !.recommend_any = B(TRUE)] : n \in {2, 1, 0}}
    \cup
    {[EngineBase EXCEPT !.number_of_neighbors = I(1)],
     [EngineBase EXCEPT !.return_events_from_session = B(TRUE)],
     [EngineBase EXCEPT !.required_sampling_event = S("purchase"),
                        !.required_sampling_event_index = I(2)],
     [EngineBase EXCEPT !.required_sampling_event = S("purchase"),
                        !.required_sampling_event_index = I(2),
                        !.sampling_strategy = S("recent")]}

\* the fit calls of the engine runs: <<sessions, items>>
EngineFits ==
    {<<TestSessions, None>>, <<EventSessions, None>>,
     <<EventSessions, LooseItems>>}

EngineBatch ==
    D(<< <<S("x"), Query(<<1>>, <<100>>)>>,
         <<S("y"), Query(<<2, 3>>, <<200, 300>>)>> >>)

\* the recommend calls of the engine runs: <<event_stream, settings>>
EngineCalls ==
    {<<Query(<<1>>, <<100>>), None>>,
     <<Query(<<2, 3>>, <<200, 300>>), None>>,
     <<Query(<<9>>, <<1>>), None>>,
     <<Query(<<3, 1, 3>>, <<1, 2, 3>>), None>>,
     <<EngineBatch, None>>,
     <<Query(<<2, 3>>, <<200, 300>>),
       Settings1("number_of_neighbors", I(1))>>}

\* the fitted facades of the engine runs
EngineModels ==
    UNION {{done.m : done \in {d \in FitOutcomes(InitObject(a), f[1], f[2]) :
                                  d.err = "ok"}} :
           a \in {c \in EngineConfigs : InitErr(c) = "ok"},
           f \in EngineFits}

\* the action weights of tests/test_sessions_class.py
ActionWeights ==
    D(<< <<S("view"), Float(1, 10)>>, <<S("purchase"), Float(1, 1)>> >>)

Event(sid, pid, dt) ==
    D(<< <<S("sid"), S(sid)>>, <<S("pid"), I(pid)>>, <<S("dt"), I(dt)>> >>)
ActionEvent(sid, pid, dt, act) ==
    D(<< <<S("sid"), S(sid)>>, <<S("pid"), I(pid)>>, <<S("dt"), I(dt)>>,
         <<S("act"), act>> >>)

\* the events appended to the store: with and without an action, with an
\* action that has no weight, and with None in the place of the action
StoreEvents ==
    {Event(sid, pid, dt) : sid \in {"s1", "s2"}, pid \in {1, 2}, dt \in {5, 9}}
    \cup
    {ActionEvent(sid, pid, 7, S(act)) :
        sid \in {"s1", "s2"}, pid \in {1, 2}, act \in {"view", "purchase"}}
    \cup
    {ActionEvent("s1", 1, 3, S("click")), ActionEvent("s2", 2, 3, None)}

\* the store takes events while it holds fewer than MaxEvents of them
MaxEvents == 3

RECURSIVE StoredEvents(_)
StoredEvents(pairs) ==
    IF pairs = <<>> THEN 0
    ELSE Len(pairs[1][2][1]) + StoredEvents(Tail(pairs))

-----------------------------------------------------------------------------
(* Actions *)

SessVars == <<sessions_obj, sess_result>>
FacadeVars == <<self, op, args, result>>

\* model = WSKNN(...)
Construct(a) ==
    /\ self = NoObject
    /\ op' = "__init__"
    /\ args' = <<a>>
    /\ IF InitErr(a) # "ok"
       THEN self' = self /\ result' = Raise(InitErr(a))
       ELSE self' = InitObject(a) /\ result' = ReturnNone
    /\ UNCHANGED SessVars

\* model.fit(sessions, items)
Fit(sessions, items) ==
    /\ self # NoObject
    /\ op' = "fit"
    /\ args' = <<sessions, items>>
    /\ \E done \in FitOutcomes(self, sessions, items) :
          /\ self' = done.m
          /\ result' = IF done.err = "ok" THEN ReturnNone
                       ELSE Raise(done.err)
    /\ UNCHANGED SessVars

\* model.set_model_params(**settings)
SetModelParams(settings) ==
    /\ self # NoObject
    /\ op' = "set_model_params"
    /\ args' = <<settings>>
    /\ \E done \in {set_model_params(self, settings)} :
          /\ self' = done.m
          /\ result' = IF done.err = "ok" THEN ReturnNone
                       ELSE Raise(done.err)
    /\ UNCHANGED SessVars

\* a variant that runs the settings override on every call, with no field
\* given when settings is None
RecommendAlwaysConfigures(event_stream, settings) ==
    /\ self # NoObject
    /\ op' = "recommend"
    /\ args' = <<event_stream, settings>>
    /\ \E done \in {set_model_params(self, IF settings # None THEN settings
                                           ELSE D(<<>>))} :
          /\ self' = done.m
          /\ IF done.err # "ok" THEN result' = Raise(done.err)
             ELSE IF TypeOf(event_stream) = "dict"
             THEN result' \in BatchOutcomes(done.m, Val(event_stream))
             ELSE IF TypeOf(event_stream) = "list"
             THEN result' \in PredictOutcomes(done.m, Val(event_stream))
             ELSE result' = Raise("NotImplementedError")
    /\ UNCHANGED SessVars

\* a variant whose settings last for the one call
RecommendScopedSettings(event_stream, settings) ==
    /\ self # NoObject
    /\ op' = "recommend"
    /\ args' = <<event_stream, settings>>
    /\ \E done \in {IF settings # None
                    THEN set_model_params(self, settings)
                    ELSE [m |-> self, err |-> "ok"]} :
          /\ self' = self
          /\ IF done.err # "ok" THEN result' = Raise(done.err)
             ELSE IF TypeOf(event_stream) = "dict"
             THEN result' \in BatchOutcomes(done.m, Val(event_stream))
             ELSE IF TypeOf(event_stream) = "list"
             THEN result' \in PredictOutcomes(done.m, Val(event_stream))
             ELSE result' = Raise("NotImplementedError")
    /\ UNCHANGED SessVars

\* model.recommend(event_stream, settings)
Recommend(event_stream, settings) ==
    /\ self # NoObject
    /\ op' = "recommend"
    /\ args' = <<event_stream, settings>>
    /\ \E done \in {IF settings # None
                    THEN set_model_params(self, settings)
                    ELSE [m |-> self, err |-> "ok"]} :
          /\ self' = done.m
          /\ IF done.err # "ok" THEN result' = Raise(done.err)
             ELSE IF TypeOf(event_stream) = "dict"
             THEN result' \in BatchOutcomes(done.m, Val(event_stream))
             ELSE IF TypeOf(event_stream) = "list"
             THEN result' \in PredictOutcomes(done.m, Val(event_stream))
             ELSE result' = Raise("NotImplementedError")
    /\ UNCHANGED SessVars

\* a variant of predict that passes the call on without looking at the maps
PredictUnchecked(event_stream, settings) ==
    /\ self # NoObject
    /\ op' = "predict"
    /\ args' = <<event_stream, settings>>
    /\ \E done \in {IF settings # None
                    THEN set_model_params(self, settings)
                    ELSE [m |-> self, err |-> "ok"]} :
          /\ self' = done.m
          /\ IF done.err # "ok" THEN result' = Raise(done.err)
             ELSE IF TypeOf(event_stream) = "dict"
             THEN result' \in BatchOutcomes(done.m, Val(event_stream))
             ELSE IF TypeOf(event_stream) = "list"
             THEN result' \in PredictOutcomes(done.m, Val(event_stream))
             ELSE result' = Raise("NotImplementedError")
    /\ UNCHANGED SessVars

\* predict(model, sessions, settings) of wsknn/predict.py: ValueError for a
\* model without maps, otherwise model.recommend(sessions, settings)
Predict(event_stream, settings) ==
    /\ self # NoObject
    /\ op' = "predict"
    /\ args' = <<event_stream, settings>>
    /\ IF self.item_session_map = None \/ self.session_item_map = None
       THEN self' = self /\ result' = Raise("ValueError")
       ELSE \E done \in {IF settings # None
                         THEN set_model_params(self, settings)
                         ELSE [m |-> self, err |-> "ok"]} :
              /\ self' = done.m
              /\ IF done.err # "ok" THEN result' = Raise(done.err)
                 ELSE IF TypeOf(event_stream) = "dict"
                 THEN result' \in BatchOutcomes(done.m, Val(event_stream))
                 ELSE IF TypeOf(event_stream) = "list"
                 THEN result' \in PredictOutcomes(done.m, Val(event_stream))
                 ELSE result' = Raise("NotImplementedError")
    /\ UNCHANGED SessVars

\* sessions.append(event)
SessionsAppend(event) ==
    /\ StoredEvents(Val(sessions_obj.session_items_actions_map)) < MaxEvents
    /\ \E done \in {append(sessions_obj, event)} :
          /\ sessions_obj' = done.o
          /\ sess_result' = done.err
    /\ UNCHANGED FacadeVars

Init ==
    /\ self = NoObject
    /\ op = "none"
    /\ args = <<>>
    /\ result = ReturnNone
    /\ sessions_obj = NewSessions(None, None)
    /\ sess_result = "ok"

Next ==
    \/ \E a \in CtorCalls : Construct(a)
    \/ \E f \in FitCalls : Fit(f[1], f[2])
    \/ \E s \in SettingsCalls : SetModelParams(s)
    \/ \E r \in RecommendCalls : Recommend(r[1], r[2])
    \/ \E r \in RecommendCalls : Predict(r[1], r[2])
    \/ \E s \in FaultySettings : SetModelParams(s)
    \/ \E r \in FaultyRecommendCalls : Recommend(r[1], r[2])

\* the facade lifecycle: construct, fit, configure, recommend
Spec == Init /\ [][Next]_vars

\* sessions = Sessions(...), with or without an action key
InitSess ==
    /\ self = NoObject
    /\ op = "none"
    /\ args = <<>>
    /\ result = ReturnNone
    /\ sessions_obj \in {NewSessions(None, None),
                         NewSessions(S("act"), ActionWeights)}
    /\ sess_result = "ok"

NextSess == \E event \in StoreEvents : SessionsAppend(event)

\* the Sessions event store under append calls
SpecSess == InitSess /\ [][NextSess]_vars

InitEngine ==
    /\ self \in EngineModels
    /\ op = "none"
    /\ args = <<>>
    /\ result = ReturnNone
    /\ sessions_obj = NewSessions(None, None)
    /\ sess_result = "ok"

NextEngine ==
    \E r \in EngineCalls : Recommend(r[1], r[2])

\* the recommendation engine on fitted facades
SpecEngine == InitEngine /\ [][NextEngine]_vars

\* the facades of the override runs: the defaults, and a facade with
\* recommend_any set and return_events_from_session cleared, each fitted on
\* SmallSessions
OverrideConfigs ==
    {CtorDefaults,
     [CtorDefaults EXCEPT !.recommend_any = B(TRUE),
                          !.return_events_from_session = B(FALSE)]}
OverrideModels ==
    UNION {{done.m : done \in {d \in FitOutcomes(InitObject(a),
                                                  SmallSessions, None) :
                                  d.err = "ok"}} : a \in OverrideConfigs}

\* the set_model_params calls of the override runs: valid ones, and ones
\* with a faulty field after or before a valid one
OverrideSettings ==
    {Settings1("number_of_neighbors", I(1)),
     Settings1("recommend_any", B(TRUE)),
     Settings2("number_of_recommendations", I(2), "recommend_any", B(TRUE)),
     Settings1("return_events_from_session", B(FALSE)),
     Settings1("weighting_func", S("log")),
     Settings2("number_of_recommendations", I(3),
               "weighting_func", S("cubic")),
     Settings1("ranking_strategy", S("cubic")),
     Settings2("sample_size", S("x"), "sampling_strategy", S("recent"))}

\* the recommend calls of the override runs: <<event_stream, settings>>
OverrideCalls ==
    {<<Query(<<1>>, <<100>>), None>>,
     <<Query(<<1>>, <<100>>), Settings1("number_of_recommendations", I(1))>>,
     <<Query(<<1>>, <<100>>),
       Settings2("number_of_neighbors", I(2), "ranking_strategy", S("cubic"))>>}

InitSettings ==
    /\ self \in OverrideModels
    /\ op = "none"
    /\ args = <<>>
    /\ result = ReturnNone
    /\ sessions_obj = NewSessions(None, None)
    /\ sess_result = "ok"

NextSettings ==
    \/ \E s \in OverrideSettings : SetModelParams(s)
    \/ \E r \in OverrideCalls : Recommend(r[1], r[2])

\* settings overrides and recommend calls on a fitted facade
SpecSettings == InitSettings /\ [][NextSettings]_vars

-----------------------------------------------------------------------------
(* Function calls: the helpers of the package called on their own *)

\* a session holds at most MaxLen events
MaxLen == 2
MapItems == {1, 2}
MapStamps == {1, 2, 3}

\* the session records <<items, timestamps>> of up to n events
SessionRecords(n) ==
    UNION {{<<IntList(items), IntList(stamps)>> :
               items \in [1..len -> MapItems], stamps \in [1..len -> MapStamps]} :
           len \in 0..n}

\* sessions maps with the sessions "a" and "b", rows of equal length
MapInputs ==
    {D(<< <<S("a"), ra>>, <<S("b"), rb>> >>) :
        ra \in SessionRecords(MaxLen), rb \in SessionRecords(MaxLen)}

\* a record of a sessions map has at most MaxRows rows
MaxRows == 3

\* the rows of the records given to fit: lists of numbers, of numeric
\* strings, of a number and a string, of None, and a bare number
CheckRows ==
    {IntList(<<1>>), IntList(<<1, 2>>), StrList(<<"10">>),
     L(<<I(1), S("x")>>), L(<<None>>), I(5)}

\* sessions maps of one session whose record has 0 to n rows
CheckSessions(n) ==
    UNION {{Dict1(S("A"), rec) : rec \in [1..len -> CheckRows]} : len \in 0..n}

\* keys, ids and timestamps of the types that the two maps can disagree on
DtypeStamps == {I(10), Float(21, 2), S("10")}

\* sessions maps of one session with one event
DtypeSessions ==
    {Dict1(key, <<L(<<item>>), L(<<ts>>)>>) :
        key \in {S("A"), I(7)}, item \in {I(1), S("1")}, ts \in DtypeStamps}

\* items maps of one item held by one session, and two with an empty row
DtypeItems ==
    {Dict1(key, <<L(<<ses>>), L(<<ts>>)>>) :
        key \in {I(1), S("1")}, ses \in {S("A"), I(7)}, ts \in DtypeStamps}
    \cup
    {Dict1(I(1), <<L(<<>>), IntList(<<10>>)>>),
     Dict1(I(1), <<StrList(<<"A">>), L(<<>>)>>)}

\* positions and lengths given to the session weighting functions: a
\* session of up to MaxPositions events
MaxPositions == 6

\* ranks given to the item weighting functions
MaxRank == 12

\* queries and candidate sessions of a similarity calculation
MaxQuery == 3
SimilarityItems == {1, 2, 3}
SimilarityQueries ==
    UNION {{IntList(q) : q \in [1..len -> SimilarityItems]} : len \in 0..MaxQuery}
SimilarityCandidates ==
    {IntList(<<>>), IntList(<<1>>), IntList(<<2>>), IntList(<<3>>),
     IntList(<<1, 2>>), IntList(<<1, 3>>), IntList(<<2, 3>>),
     IntList(<<1, 2, 3>>), IntList(<<4>>)}
\* the object the scorer runs on: one stored session "n" with the
\* candidate's items
SimilarityModel(fn_name, other_items) ==
    [InitObject(CtorDefaults) EXCEPT
        !.weighting_function = S(fn_name),
        !.session_item_map =
            Dict1(S("n"), <<other_items,
                            IntList([k \in DOMAIN Val(other_items) |-> k])>>)]

\* the object the ranking runs on: one stored session "n" with the
\* neighbor's items
RankModel(ranking_strategy, other_items, return_events_from_session) ==
    [SimilarityModel("linear", other_items) EXCEPT
        !.ranking_strategy = S(ranking_strategy),
        !.return_events_from_session = B(return_events_from_session)]

\* the stored sessions a sampler call picks from, the pools handed to it
\* with the orders their iteration can take, and the sample sizes
PoolSessions ==
    D(<< <<S("a"), <<IntList(<<1, 2, 3>>), IntList(<<1, 2, 3>>)>>>>,
         <<S("b"), <<IntList(<<1>>), IntList(<<4>>)>>>>,
         <<S("c"), <<IntList(<<2, 2, 4>>), IntList(<<5, 6, 7>>)>>>> >>)
MaxSample == 3
SamplerPools ==
    UNION {{<<sessions, ord>> : ord \in Orders(sessions)} :
             sessions \in SUBSET Keys(PoolSessions)}
\* the object the sampler runs on
SamplerModel(sample_size) ==
    [InitObject(CtorDefaults) EXCEPT
        !.session_item_map = PoolSessions,
        !.possible_neighbors_sample_size = I(sample_size)]

\* the calls: <<function, arguments...>>
\* the records <<items, timestamps>> of one event up to MaxLen events
MergeRecords == SessionRecords(MaxLen) \ {<<IntList(<<>>), IntList(<<>>)>>}

\* tests/test_merge_dicts.py: the maps d1 and d2
MergeDict1 ==
    D(<< <<S("a"), <<IntList(<<0, 1, 2>>), IntList(<<10, 20, 30>>),
                     StrList(<<"a", "ac", "as">>),
                     L(<<Float(1, 10), Float(2, 10), Float(3, 10)>>)>>>>,
         <<S("c"), <<StrList(<<"a">>), IntList(<<1>>), StrList(<<"l">>),
                     IntList(<<1>>)>>>> >>)
MergeDict2 ==
    D(<< <<S("d"), <<IntList(<<4, 4, 4>>), IntList(<<10, 20, 545>>),
                     StrList(<<"as", "rt", "k">>),
                     L(<<Float(2, 10), Float(5, 10), Float(8, 10)>>)>>>>,
         <<S("a"), <<IntList(<<7>>), IntList(<<2>>), StrList(<<"c">>),
                     L(<<Float(3, 10)>>)>>>>,
         <<S("c"), <<StrList(<<"a", "b">>), IntList(<<3, 4>>),
                     StrList(<<"ac", "a">>),
                     L(<<Float(1, 10), Float(1, 10)>>)>>>> >>)

\* two maps of one key each, equal or different, and the maps of the test
\* in both orders
MergeCalls ==
    {<<"merge_dicts", Dict1(S("a"), r1), Dict1(key, r2)>> :
        r1 \in MergeRecords, r2 \in MergeRecords, key \in {S("a"), S("b")}}
    \cup
    {<<"merge_dicts", MergeDict1, MergeDict2>>,
     <<"merge_dicts", MergeDict2, MergeDict1>>}

CalcCalls ==
    {<<"map_sessions_to_items", sessions_map, sort_items_map>> :
        sessions_map \in MapInputs, sort_items_map \in BOOLEAN}
    \cup
    {<<"fit", sessions, None>> : sessions \in CheckSessions(MaxRows)}
    \cup
    {<<"fit", sessions, items>> :
        sessions \in DtypeSessions, items \in DtypeItems}
    \cup
    {<<"_calculate_similarity", fn_name, session_items, other_items>> :
        fn_name \in {"linear", "log", "quadratic"},
        session_items \in SimilarityQueries,
        other_items \in SimilarityCandidates}
    \cup
    {<<"_rank_items", ranking_strategy, session_items, other_items,
       similarity, return_events_from_session>> :
        ranking_strategy \in {"linear", "inv", "log", "quadratic"},
        session_items \in SimilarityQueries,
        other_items \in SimilarityCandidates,
        similarity \in {Rat(1), Norm(1, 2)},
        return_events_from_session \in BOOLEAN}
    \cup
    {<<"_sampling_common", pool[1], session_items, sample_size, pool[2]>> :
        pool \in SamplerPools,
        session_items \in SimilarityQueries,
        sample_size \in 0..MaxSample}
    \cup
    MergeCalls
    \cup
    {<<"weight_item_score", fn_name, rank>> :
        fn_name \in {"linear", "inv", "quadratic"}, rank \in 1..MaxRank}
    \cup
    {<<"weight_session_items", fn_name, position, length>> :
        fn_name \in {"linear", "quadratic"},
        position \in 0..(MaxPositions - 1),
        length \in 1..MaxPositions}

\* items_map = map_sessions_to_items(sessions_map, sort_items_map)
MapSessionsToItems ==
    /\ op = "none"
    /\ args[1] = "map_sessions_to_items"
    /\ op' = "map_sessions_to_items"
    /\ \E done \in {map_sessions_to_items(args[2], args[3])} :
          result' = IF done.err = "ok" THEN ReturnDict(Val(done.val))
                    ELSE Raise(done.err)
    /\ UNCHANGED <<self, args, sessions_obj, sess_result>>

\* weight = weight_session_items(fn_name, element_pos, length)
WeightSessionItems ==
    /\ op = "none"
    /\ args[1] = "weight_session_items"
    /\ op' = "weight_session_items"
    /\ result' = ReturnFloat(weight_session_items(args[2], args[3], args[4]))
    /\ UNCHANGED <<self, args, sessions_obj, sess_result>>

\* weight = weight_item_score(fn_name, element_pos)
WeightItemScore ==
    /\ op = "none"
    /\ args[1] = "weight_item_score"
    /\ op' = "weight_item_score"
    /\ result' = ReturnFloat(weight_item_score(args[2], args[3]))
    /\ UNCHANGED <<self, args, sessions_obj, sess_result>>

\* self._calculate_similarity(session_items, ["n"])
CalculateSimilarity ==
    /\ op = "none"
    /\ args[1] = "_calculate_similarity"
    /\ op' = "_calculate_similarity"
    /\ \E done \in {_calculate_similarity(self, Val(args[3]), <<S("n")>>)} :
          result' = IF done.err = "ok" THEN ReturnList(done.val)
                    ELSE Raise(done.err)
    /\ UNCHANGED <<self, args, sessions_obj, sess_result>>

\* self._rank_items([["n", similarity]], [session_items, timestamps])
RankItems ==
    /\ op = "none"
    /\ args[1] = "_rank_items"
    /\ op' = "_rank_items"
    /\ result' = ReturnList(_rank_items(self, <<<<S("n"), args[5]>>>>,
                     <<args[3], IntList([k \in DOMAIN Val(args[3]) |-> k])>>))
    /\ UNCHANGED <<self, args, sessions_obj, sess_result>>

\* self._sampling_common(sessions, [session_items, timestamps]), the set
\* sessions being iterated in the order args[5]
SamplingCommon ==
    /\ op = "none"
    /\ args[1] = "_sampling_common"
    /\ op' = "_sampling_common"
    /\ \E done \in {_sampling_common(self, args[2],
                       <<args[3], IntList([k \in DOMAIN Val(args[3]) |-> k])>>,
                       args[5])} :
          result' = IF done.err = "ok" THEN ReturnList(done.val)
                    ELSE Raise(done.err)
    /\ UNCHANGED <<self, args, sessions_obj, sess_result>>

\* merged = merge_dicts(dict1, dict2)
MergeDicts ==
    /\ op = "none"
    /\ args[1] = "merge_dicts"
    /\ op' = "merge_dicts"
    /\ \E done \in {merge_dicts(args[2], args[3])} :
          result' = ReturnDict(Val(done))
    /\ UNCHANGED <<self, args, sessions_obj, sess_result>>

\* model.fit(sessions, items) on the facade of WSKNN()
FitCall ==
    /\ op = "none"
    /\ args[1] = "fit"
    /\ Fit(args[2], args[3])

InitCalc ==
    /\ args \in CalcCalls
    /\ self = CASE args[1] = "_calculate_similarity" ->
                     SimilarityModel(args[2], args[4])
                [] args[1] = "_rank_items" ->
                     RankModel(args[2], args[4], args[6])
                [] args[1] = "_sampling_common" -> SamplerModel(args[4])
                [] OTHER -> InitObject(CtorDefaults)
    /\ op = "none"
    /\ result = ReturnNone
    /\ sessions_obj = NewSessions(None, None)
    /\ sess_result = "ok"

NextCalc ==
    \/ MapSessionsToItems
    \/ FitCall
    \/ WeightSessionItems
    \/ WeightItemScore
    \/ CalculateSimilarity
    \/ RankItems
    \/ SamplingCommon
    \/ MergeDicts

\* one call of a helper function on drawn arguments
SpecCalc == InitCalc /\ [][NextCalc]_vars

-----------------------------------------------------------------------------
(* Properties *)

\* the last call was recommend on one session (a list), not on a batch
SingleCall == op = "recommend" /\ TypeOf(args[1]) = "list"
\* the last call was recommend on a mapping of sessions
BatchCall == op = "recommend" /\ TypeOf(args[1]) = "dict"
\* the query session of the last single-session call
LastQuery == Val(args[1])

\* the facade of test_wsknn_no_items: default parameters except
\* return_events_from_session, fitted on TestSessions, items map derived
TestFixture ==
    [InitObject(EngineBase) EXCEPT
        !.session_item_map = TestSessions,
        !.item_session_map = map_sessions_to_items(TestSessions, TRUE).val]

Expected1 ==
    <<<<I(2), <<2, 1>>>>, <<I(3), <<2, 1>>>>, <<I(4), <<2, 1>>>>,
      <<I(5), <<2, 1>>>>>>
Expected2 == <<<<I(4), <<5, 2>>>>, <<I(5), <<5, 2>>>>, <<I(1), <<5, 4>>>>>>

\* C1: on the facade of the test, recommend([[1],[100]]) returns exactly
\* [(2,2.0),(3,2.0),(4,2.0),(5,2.0)] and recommend([[2,3],[200,300]]) returns
\* exactly [(4,2.5),(5,2.5),(1,1.25)], in that order
C1_TestExample ==
    (op = "recommend" /\ self = TestFixture /\ args[2] = None) =>
        /\ args[1] = Query(<<1>>, <<100>>) => result = ReturnList(Expected1)
        /\ args[1] = Query(<<2, 3>>, <<200, 300>>) =>
              result = ReturnList(Expected2)

\* C1, its case: the second query of the test has been answered on the
\* facade of the test
C1_Witness ==
    /\ op = "recommend" /\ self = TestFixture /\ args[2] = None
    /\ args[1] = Query(<<2, 3>>, <<200, 300>>)
    /\ result = ReturnList(Expected2)

\* C2: a batch recommend that returns has exactly the keys of its input, in
\* their order, and under each key a result that single-session recommend
\* gives for that session on the same facade; a batch recommend that raises,
\* raises what single-session recommend raises for one of its sessions
C2_BatchEqualsSingle ==
    BatchCall =>
        /\ result.kind \in {"dict", "raise"}
        /\ result.kind = "dict" =>
              /\ DOMAIN result.val = DOMAIN Val(args[1])
              /\ \A k \in DOMAIN result.val :
                    /\ result.val[k][1] = Val(args[1])[k][1]
                    /\ result.val[k][2] \in
                          PredictOutcomes(self, Val(Val(args[1])[k][2]))
        /\ (result.kind = "raise" /\ args[2] = None) =>
              \E k \in DOMAIN Val(args[1]) :
                  result \in PredictOutcomes(self, Val(Val(args[1])[k][2]))

\* C2, its case: a batch of two sessions has returned two different lists
C2_Witness ==
    /\ BatchCall /\ result.kind = "dict"
    /\ Len(result.val) = 2
    /\ result.val[1][2].kind = "list" /\ result.val[2][2].kind = "list"
    /\ result.val[1][2] # result.val[2][2]

\* two results of one call agree but for the places that hold padding
SamePadded(r1, r2) ==
    /\ r1.kind = r2.kind
    /\ r1.err = r2.err
    /\ r1.kind = "list" =>
          /\ Len(r1.val) = Len(r2.val)
          /\ \A k \in DOMAIN r1.val :
                r1.val[k] # r2.val[k] =>
                    r1.val[k][2] = Rat(0) /\ r2.val[k][2] = Rat(0)

\* C3 (amended): for a fixed facade state, a fixed query session, a sampling
\* strategy other than 'random' and a fixed iteration order of the candidate
\* set, two recommend calls return the same result when recommend_any is
\* unset, and with recommend_any set they return lists of one length that
\* differ only in the randomly padded pairs of score 0.0
C3_SameOrderSameRanking ==
    (SingleCall /\ self.sampling_strategy # S("random")) =>
        \A ord \in Orders(Candidates(self, LastQuery)) :
            /\ \A r1, r2 \in _predict(self, LastQuery, ord) : SamePadded(r1, r2)
            /\ ~Truthy(self.recommend_any) =>
                  Cardinality(_predict(self, LastQuery, ord)) = 1

\* C3, its case: recommend_any is unset, the strategy is not 'random', and
\* the answer to the query depends on the iteration order of the candidates
C3_Witness ==
    /\ SingleCall /\ result.kind = "list"
    /\ self.sampling_strategy # S("random")
    /\ ~Truthy(self.recommend_any)
    /\ Cardinality(PredictOutcomes(self, LastQuery)) > 1

\* C3 as stated: for a fixed facade state (recommend_any included), a fixed
\* query and a sampling strategy other than 'random', every recommend call
\* returns the same result, whatever the iteration order and the draws
C3_Original ==
    (SingleCall /\ result.kind # "raise"
        /\ self.sampling_strategy # S("random")) =>
        PredictOutcomes(self, LastQuery) = {result}

\* both maps are unset, or both come from one fit call
MapsFromOneFit ==
    \/ self.session_item_map = None /\ self.item_session_map = None
    \/ \E f \in FitCalls :
          /\ fit_items(f[1], f[2]).err = "ok"
          /\ self.session_item_map = f[1]
          /\ self.item_session_map = fit_items(f[1], f[2]).val

\* a fit call that raises leaves the facade as it was; one that returns has
\* replaced both maps by the maps of this call
FitStep ==
    op' = "fit" =>
        IF result'.kind = "raise" THEN self' = self
        ELSE /\ fit_items(args'[1], args'[2]).err = "ok"
             /\ self' = [self EXCEPT
                           !.session_item_map = args'[1],
                           !.item_session_map =
                               fit_items(args'[1], args'[2]).val]

\* C4: fit is all-or-nothing: a fit call that raises keeps both maps, a fit
\* call that returns replaces both by the maps of this call, and no state
\* pairs a sessions map of one fit call with an items map of another
C4_FitAllOrNothing == []MapsFromOneFit /\ [][FitStep]_vars

\* C4, its case: a fit call has raised on a facade that an earlier fit call
\* had filled
C4_Witness ==
    /\ op = "fit" /\ result.kind = "raise"
    /\ self.session_item_map # None
    /\ args[1] # self.session_item_map

\* every record of the sessions map passes the checks of fit
ValidSessionsMap(sessions) ==
    \A k \in Keys(sessions) : _check_sessions_input(sessions, k) = "ok"

\* C5 as stated: fit with a valid sessions map and an items map whose
\* records have one nested sequence raises InvalidDimensionsError and no
\* other error
C5_OneRowItemsDimensionError ==
    (/\ op = "fit"
     /\ args[2] # None
     /\ ValidSessionsMap(args[1])
     /\ \A k \in Keys(args[2]) : Len(Get(args[2], k)) = 1) =>
        result = Raise("InvalidDimensionsError")

\* C6 as stated: single-session recommend that returns, returns a list
\* (an empty one when no neighbor is found and recommend_any is unset)
C6_AlwaysList ==
    (SingleCall /\ result.kind # "raise") => result.kind = "list"

\* C7 (amended): the list returned for one session is ordered by score from
\* high to low, pairs of equal score allowed: no pair has a lower score
\* than the pair that follows it
C7_NonIncreasing ==
    (SingleCall /\ result.kind = "list") =>
        \A k \in 1..(Len(result.val) - 1) :
            RLeq(result.val[k + 1][2], result.val[k][2])

\* C7, its case: a returned list holds two neighbouring pairs of one score
\* above a pair of a lower score
C7_Witness ==
    /\ SingleCall /\ result.kind = "list"
    /\ \E k \in 1..(Len(result.val) - 2) :
          /\ result.val[k][2] = result.val[k + 1][2]
          /\ RLess(result.val[k + 2][2], result.val[k + 1][2])

\* C7 as stated: every pair's score is strictly greater than the score of
\* the pair that follows it
C7_StrictlyDescending ==
    (SingleCall /\ result.kind = "list") =>
        \A k \in 1..(Len(result.val) - 1) :
            RLess(result.val[k + 1][2], result.val[k][2])

\* recs are the n highest pairs of scored, min(n, Len(scored)) of them
TopOf(recs, scored, n) ==
    /\ Len(recs) = Min(n, Len(scored))
    /\ \A i, j \in DOMAIN recs : recs[i][1] = recs[j][1] => i = j
    /\ SeqToSet(recs) \subseteq SeqToSet(scored)
    /\ \A p \in SeqToSet(scored) \ SeqToSet(recs) :
          \A k \in DOMAIN recs : RLeq(p[2], recs[k][2])

\* C8: with n_of_recommendations = n >= 0 and recommend_any unset, a
\* single-session recommend that finds a neighbor returns exactly
\* min(n, number of items the ranking engine scored) pairs, each of a
\* different item, and no item left out has a higher score than one returned
C8_TopN ==
    (/\ SingleCall /\ result.kind = "list"
     /\ ~Truthy(self.recommend_any)
     /\ IntVal(self.n_of_recommendations) >= 0) =>
        \E ord \in Orders(Candidates(self, LastQuery)) :
            /\ _nearest_neighbors(self, LastQuery, ord).err = "ok"
            /\ Len(_nearest_neighbors(self, LastQuery, ord).val) > 0
            /\ TopOf(result.val,
                     _rank_items(self,
                                 _nearest_neighbors(self, LastQuery, ord).val,
                                 LastQuery),
                     IntVal(self.n_of_recommendations))

\* C8, its case: the ranking engine scored more items than n, and n > 0 of
\* them were returned
C8_Witness ==
    /\ SingleCall /\ result.kind = "list"
    /\ ~Truthy(self.recommend_any)
    /\ Len(result.val) = IntVal(self.n_of_recommendations)
    /\ Len(result.val) > 0
    /\ \A ord \in Orders(Candidates(self, LastQuery)) :
          Len(_rank_items(self, _nearest_neighbors(self, LastQuery, ord).val,
                          LastQuery)) > Len(result.val)

\* C9 as stated: in every state of a constructed facade, a
\* required_sampling_event comes with its required_sampling_event_index and
\* the 'weighted_events' strategy with its sampling_event_weights_index
C9_CompanionIndexes ==
    self # NoObject =>
        /\ self.required_sampling_event # None =>
              self.required_sampling_event_index # None
        /\ self.sampling_strategy = S("weighted_events") =>
              self.sampling_event_weights_index # None

\* C10 as stated: on a store configured with an action key and action
\* weights, every record has all of its sequences of equal length
C10_RowsEqualLength ==
    (sessions_obj.event_action_key # None
        /\ sessions_obj.action_weights # None) =>
        \A k \in DOMAIN Val(sessions_obj.session_items_actions_map) :
            \A i, j \in DOMAIN Val(sessions_obj.session_items_actions_map)[k][2] :
                Len(Val(sessions_obj.session_items_actions_map)[k][2][i])
                  = Len(Val(sessions_obj.session_items_actions_map)[k][2][j])

\* the timestamps of the occurrences of item in a session record
OccurrenceStamps(rec, item) ==
    {IntVal(Val(rec[2])[k]) : k \in {j \in DOMAIN Val(rec[1]) :
                                        Val(rec[1])[j] = item}}

\* the sessions of a sessions map that hold item
SessionsWith(sessions_map, item) ==
    {p[1] : p \in {q \in SeqToSet(Val(sessions_map)) :
                      OccurrenceStamps(q[2], item) # {}}}

\* every item that occurs in a session of the map
ItemsIn(sessions_map) ==
    UNION {SeqToSet(Val(p[2][1])) : p \in SeqToSet(Val(sessions_map))}

\* C11: the items map derived from a sessions map with rows of equal length
\* has exactly one key per item that occurs in a session; the record of an
\* item lists each session that holds it exactly once and no other session,
\* and the timestamp next to a session is the smallest timestamp of the
\* item's occurrences in that session; with and without the final sort
C11_ItemsMapRoundTrip ==
    op = "map_sessions_to_items" =>
        /\ result.kind = "dict"
        /\ {p[1] : p \in SeqToSet(result.val)} = ItemsIn(args[2])
        /\ Cardinality(ItemsIn(args[2])) = Len(result.val)
        /\ \A p \in SeqToSet(result.val) :
              LET ses == Val(p[2][1])
                  tss == Val(p[2][2])
              IN  /\ Len(ses) = Len(tss)
                  /\ SeqToSet(ses) = SessionsWith(args[2], p[1])
                  /\ Cardinality(SeqToSet(ses)) = Len(ses)
                  /\ \A j \in DOMAIN ses :
                        LET stamps == OccurrenceStamps(
                                Get(args[2], ses[j]), p[1])
                        IN  /\ IntVal(tss[j]) \in stamps
                            /\ \A s \in stamps : IntVal(tss[j]) <= s

\* C11, its case: an item occurs twice in session "a", the later occurrence
\* with the smaller timestamp, and also in session "b" with a timestamp
\* below both, so that the final sort moves "b" in front of "a"
C11_Witness ==
    /\ op = "map_sessions_to_items" /\ args[3] = TRUE
    /\ Get(args[2], S("a")) = <<IntList(<<1, 1>>), IntList(<<3, 2>>)>>
    /\ Get(args[2], S("b")) = <<IntList(<<2, 1>>), IntList(<<3, 1>>)>>
    /\ result = ReturnDict(<<
          <<I(1), <<StrList(<<"b", "a">>), IntList(<<1, 2>>)>>>>,
          <<I(2), <<StrList(<<"b">>), IntList(<<3>>)>>>> >>)

\* C12: a recommend call without settings, single or batch, whatever the
\* sampling strategy and recommend_any, leaves both maps and every
\* configuration field of the facade as they were, and the query it was
\* given is after the call still the query the caller passed
C12_RecommendFrame ==
    [][(op' = "recommend" /\ args'[2] = None) =>
          /\ self' = self
          /\ \E r \in EngineCalls : args' = <<r[1], None>>]_vars

\* C12, its case: a batch call without settings on a facade with
\* recommend_any set has returned lists that hold random padding
C12_Witness ==
    /\ BatchCall /\ args[2] = None
    /\ Truthy(self.recommend_any)
    /\ result.kind = "dict"
    /\ \E k \in DOMAIN result.val :
          /\ result.val[k][2].kind = "list"
          /\ \E j \in DOMAIN result.val[k][2].val :
                result.val[k][2].val[j][2] = Rat(0)

\* a facade that has not both of its maps
Unfitted(m) == m.session_item_map = None \/ m.item_session_map = None

\* the steps of C13: predict on a facade without maps raises ValueError and
\* changes nothing; a map stops being None only in a fit step that returns
\* normally, such a step leaves both maps set, and once both are set no step
\* unsets one
PredictGuardStep ==
    /\ (op' = "predict" /\ Unfitted(self)) =>
          /\ result' = Raise("ValueError")
          /\ self' = self
    /\ (Unfitted(self) /\ ~Unfitted(self')) =>
          /\ op' = "fit"
          /\ result' = ReturnNone
    /\ (op' = "fit" /\ result' = ReturnNone) => ~Unfitted(self')
    /\ ~Unfitted(self) => ~Unfitted(self')

\* C13: predict(model, session) raises ValueError, computing nothing, when
\* session_item_map or item_session_map of the model is None; that is so
\* from the constructor until the first fit call that returns normally, and
\* after it no fit (succeeding or failing), recommend, predict or
\* set_model_params call makes either map None again
C13_PredictNeedsFit ==
    /\ Unfitted(self)
    /\ [][PredictGuardStep]_vars

\* C13, its case: predict with a settings override was called on a
\* constructed facade that was never fitted; it raised ValueError and the
\* override was not applied
C13_Witness ==
    /\ op = "predict" /\ args[2] # None
    /\ self # NoObject /\ Unfitted(self)
    /\ result = Raise("ValueError")
    /\ self.n_of_recommendations # Get(args[2], S("number_of_recommendations"))

\* C13, its other case: predict answered with a list on a fitted facade
C13_WitnessFitted ==
    /\ op = "predict" /\ ~Unfitted(self) /\ result.kind = "list"

\* a timestamp that is a string or that int() does not convert
BadTimestamp(v) == TypeOf(v) \notin {"int", "float", "bool"}

\* the error C14 names for a sampled record of the sessions map
SessionsRecordError(rec) ==
    IF Len(rec) < 2 THEN "InvalidDimensionsError"
    ELSE IF \E k \in DOMAIN rec : TypeOf(rec[k]) \notin {"list", "str", "dict"}
    THEN "TypeError"
    ELSE IF \E k \in DOMAIN Val(rec[2]) : BadTimestamp(Val(rec[2])[k])
    THEN "InvalidTimestampError"
    ELSE "ok"

SampledPair ==
    /\ op = "fit" /\ args[2] # None
    /\ Len(Val(args[1])) = 1 /\ Len(Val(args[2])) = 1
    /\ \A rec \in {Val(args[1])[1][2], Val(args[2])[1][2]} :
          /\ Len(rec) >= 2
          /\ \A k \in 1..2 : TypeOf(rec[k]) = "list" /\ Val(rec[k]) # <<>>

\* the type of session ids, of item ids or of timestamps differs between
\* the sampled records of the two maps
DtypesDiffer ==
    LET s_key == Val(args[1])[1][1]
        s_rec == Val(args[1])[1][2]
        i_key == Val(args[2])[1][1]
        i_rec == Val(args[2])[1][2]
    IN  \/ TypeOf(s_key) # TypeOf(Val(i_rec[1])[1])
        \/ TypeOf(Val(s_rec[1])[1]) # TypeOf(i_key)
        \/ TypeOf(Val(s_rec[2])[1]) # TypeOf(Val(i_rec[2])[1])

\* C15 (amended): when the sampled record of the sessions map passes the
\* checks of the sessions map, fit with an items map raises TypeError if the
\* type of session ids, of item ids or of timestamps differs between the
\* sampled records of the two maps, and stores neither map
C15_DtypeMismatch ==
    (SampledPair /\ DtypesDiffer
        /\ SessionsRecordError(Val(args[1])[1][2]) = "ok") =>
        /\ result = Raise("TypeError")
        /\ self.session_item_map = None
        /\ self.item_session_map = None

\* C15, its case: ids of the same types in both maps, integer timestamps in
\* the sessions map and float timestamps in the items map
C15_Witness ==
    /\ op = "fit"
    /\ args[1] = Dict1(S("A"), <<L(<<I(1)>>), L(<<I(10)>>)>>)
    /\ args[2] = Dict1(I(1), <<L(<<S("A")>>), L(<<Float(21, 2)>>)>>)
    /\ result = Raise("TypeError")
    /\ self.session_item_map = None

\* C15 as stated: whenever the types differ between the sampled records,
\* fit raises TypeError
C15_Original ==
    (SampledPair /\ DtypesDiffer) =>
        /\ result = Raise("TypeError")
        /\ self.session_item_map = None
        /\ self.item_session_map = None

\* what C16 says of one supplied field: TypeError for a count that is not
\* an integer, a strategy name that is not a string or a flag that is not
\* a boolean; KeyError for a strategy name outside its enumerated set
FieldFault(name, value) ==
    IF value = None THEN "ok"
    ELSE IF name \in {"number_of_recommendations", "number_of_neighbors",
                      "sample_size"}
    THEN IF TypeOf(value) \in {"int", "bool"} THEN "ok" ELSE "TypeError"
    ELSE IF name \in {"sampling_strategy", "weighting_func",
                      "ranking_strategy"}
    THEN IF TypeOf(value) # "str" THEN "TypeError"
         ELSE IF Val(value) \in (CASE name = "sampling_strategy" ->
                                        sampling_strategies
                                   [] name = "weighting_func" ->
                                        weighting_functions
                                   [] OTHER -> ranking_strategies)
         THEN "ok" ELSE "KeyError"
    ELSE IF name \in {"return_events_from_session", "recommend_any"}
    THEN IF TypeOf(value) = "bool" THEN "ok" ELSE "TypeError"
    ELSE "ok"

\* the parameters of set_model_params in the order of its body
ParamOrder ==
    <<"number_of_recommendations", "number_of_neighbors", "sampling_strategy",
      "sample_size", "weighting_func", "ranking_strategy",
      "return_events_from_session", "required_sampling_event",
      "recommend_any">>

\* the fault of the first faulty field of a settings override, or "ok"
FirstFault(settings) ==
    LET faulty == {k \in DOMAIN ParamOrder :
                      /\ Has(settings, S(ParamOrder[k]))
                      /\ FieldFault(ParamOrder[k],
                                    Get(settings, S(ParamOrder[k]))) # "ok"}
        first == CHOOSE k \in faulty : \A j \in faulty : k <= j
    IN  IF faulty = {} THEN "ok"
        ELSE FieldFault(ParamOrder[first], Get(settings, S(ParamOrder[first])))

\* the settings of the step, if the step is a settings override
OverrideStep(settings) ==
    \/ op' = "set_model_params" /\ args' = <<settings>>
    \/ op' = "recommend" /\ Len(args') = 2 /\ args'[2] = settings

\* the three strategy fields of the facade hold names of their sets
NamesEnumerated ==
    self # NoObject =>
        /\ InNames(self.sampling_strategy, sampling_strategies)
        /\ InNames(self.weighting_function, weighting_functions)
        /\ InNames(self.ranking_strategy, ranking_strategies)

\* C16: a settings override (set_model_params, or recommend with settings)
\* with a field of a wrong type raises TypeError and with an unknown
\* strategy name raises KeyError (the first faulty field in the order of
\* the parameters decides); and in every reachable state the stored
\* sampling_strategy, weighting_function and ranking_strategy are members
\* of their enumerated sets
C16_OverrideFaults ==
    /\ []NamesEnumerated
    /\ [][\A s \in SettingsCalls \cup FaultySettings :
             (OverrideStep(s) /\ FirstFault(s) # "ok") =>
                 result' = Raise(FirstFault(s))]_vars

\* C16, its case: an override gave a sample size that is no integer and an
\* unknown sampling strategy; the strategy comes first in the body of
\* set_model_params, so KeyError was raised, and nothing was stored
C16_Witness ==
    /\ op = "set_model_params"
    /\ args = <<Settings2("sample_size", S("x"),
                          "sampling_strategy", S("nearest"))>>
    /\ result = Raise("KeyError")
    /\ self.sampling_strategy = S("common_items")
    /\ self.possible_neighbors_sample_size = I(1000)

\* the last call weighted a position inside a session of the given length
SessionWeightCall ==
    /\ op = "weight_session_items"
    /\ 0 <= args[3] /\ args[3] < args[4]

\* C17 (amended): for the linear and quadratic session weighting functions,
\* any length > 0 and any position with 0 <= position < length, the output
\* lies in [0,1]; at the last position linear gives exactly 1 and quadratic
\* gives ((length - 1) / length)^2, which is below 1
C17_SessionWeightRange ==
    SessionWeightCall =>
        /\ RLeq(Rat(0), result.val) /\ RLeq(result.val, Rat(1))
        /\ args[3] = args[4] - 1 =>
              /\ args[2] = "linear" => result.val = Rat(1)
              /\ args[2] = "quadratic" =>
                    /\ result.val = Norm((args[4] - 1) * (args[4] - 1),
                                         args[4] * args[4])
                    /\ RLess(result.val, Rat(1))

\* C17, its case: the quadratic weight of the last of three positions
C17_Witness ==
    /\ op = "weight_session_items"
    /\ args = <<"weight_session_items", "quadratic", 2, 3>>
    /\ result = ReturnFloat(<<4, 9>>)

\* C17 as stated: both functions give exactly 1 at the last position
C17_Original ==
    SessionWeightCall =>
        /\ RLeq(Rat(0), result.val) /\ RLeq(result.val, Rat(1))
        /\ args[3] = args[4] - 1 => result.val = Rat(1)

\* (1 - 0.1 * rank) / 0.9
LinearByFormula(rank) ==
    RDiv(RAdd(Rat(1), RMul(<<-1, 10>>, Rat(rank))), <<9, 10>>)

\* C18: for every rank >= 1 the linear, inv and quadratic item weighting
\* functions return a value in [0,1] that is not below the value at the
\* next rank; linear returns (1 - 0.1*rank)/0.9 for rank < 10 and exactly 0
\* for rank >= 10; inv and quadratic are above 0 at every rank
C18_ItemWeightRange ==
    op = "weight_item_score" =>
        /\ RLeq(Rat(0), result.val) /\ RLeq(result.val, Rat(1))
        /\ RLeq(weight_item_score(args[2], args[3] + 1), result.val)
        /\ args[2] = "linear" =>
              result.val = IF args[3] < 10 THEN LinearByFormula(args[3])
                           ELSE Rat(0)
        /\ args[2] \in {"inv", "quadratic"} => RLess(Rat(0), result.val)

\* C18, its case: linear at rank 10, the first rank that gives 0
C18_Witness ==
    /\ op = "weight_item_score"
    /\ args = <<"weight_item_score", "linear", 10>>
    /\ result = ReturnFloat(Rat(0))

\* the state after a similarity calculation: the query, the candidate's
\* items and the similarity returned for the candidate
SimilarityCall == op = "_calculate_similarity" /\ result.err = "ok"
SimQuery == Val(args[3])
SimCandidate == SeqToSet(Val(args[4]))
SimResult == result.val[1][2]

\* the 0-based index of the last occurrence of x in the query
LastIndex(items, x) ==
    CHOOSE i \in 0..(Len(items) - 1) :
        /\ items[i + 1] = x
        /\ \A j \in (i + 1)..(Len(items) - 1) : items[j + 1] # x

\* C19 as stated: the weight stored for the item at 0-based index i of a
\* query of length L is session_weighting_fn(i, L), under linear weighting
\* (i+1)/L, the newest item getting 1; a later occurrence of an item
\* overwrites its earlier weight
C19_PositionWeights ==
    SimilarityCall =>
        \A x \in SeqToSet(SimQuery) :
            LET i == LastIndex(SimQuery, x)
                weight == Get(pos_weights(args[2], SimQuery), x)
            IN  /\ weight = weight_session_items(args[2], i, Len(SimQuery))
                /\ args[2] = "linear" => weight = Norm(i + 1, Len(SimQuery))

\* the sum, over the query's 0-based indexes below n that hold the last
\* occurrence of an item of the candidate, of the weight the weighting
\* function gives to the 1-based position
RECURSIVE CommonWeightSum(_, _, _, _)
CommonWeightSum(fn_name, items, other_items, n) ==
    IF n = 0 THEN Rat(0)
    ELSE RAdd(CommonWeightSum(fn_name, items, other_items, n - 1),
              IF /\ items[n] \in other_items
                 /\ LastIndex(items, items[n]) = n - 1
              THEN weight_session_items(fn_name, n, Len(items))
              ELSE Rat(0))

\* C20: the similarity of a candidate to the query is the sum of the
\* position weights of the items present in both, divided by the number of
\* distinct items of the query (the size of the weight map); it is 0 when
\* the query is empty or shares no item with the candidate, and never
\* negative
C20_Similarity ==
    SimilarityCall =>
        /\ result.val[1][1] = S("n")
        /\ SimResult =
              IF SimQuery = <<>> THEN Rat(0)
              ELSE RDiv(CommonWeightSum(args[2], SimQuery, SimCandidate,
                                        Len(SimQuery)),
                        Rat(Cardinality(SeqToSet(SimQuery))))
        /\ SeqToSet(SimQuery) \cap SimCandidate = {} => SimResult = Rat(0)
        /\ RLeq(Rat(0), SimResult)

\* C20, its case: the query [1, 2, 1] against a candidate holding item 1,
\* linear weighting: weights {1: 4/3, 2: 1}, similarity (4/3)/2
C20_Witness ==
    /\ SimilarityCall
    /\ args = <<"_calculate_similarity", "linear",
                IntList(<<1, 2, 1>>), IntList(<<1>>)>>
    /\ SimResult = Norm(2, 3)

\* C20 as stated: the divisor is the length of the query, its number of
\* events, also when an item repeats
C20_Original ==
    (SimilarityCall /\ SimQuery # <<>>) =>
        SimResult = RDiv(CommonWeightSum(args[2], SimQuery, SimCandidate,
                                         Len(SimQuery)),
                         Rat(Len(SimQuery)))

\* the state after a ranking of one neighbor: the query, the neighbor's
\* items and the similarity the neighbor came with
RankCall == op = "_rank_items" /\ result.err = "ok"
RankQuery == Val(args[3])
RankNeighbor == SeqToSet(Val(args[4]))

\* the 0-based indexes of the query items that occur in the neighbor
CommonIndexes == {i \in 0..(Len(RankQuery) - 1) : RankQuery[i + 1] \in RankNeighbor}
\* the 1-based distance from the end of the query to the most recent of them
CommonStep ==
    Len(RankQuery) - (CHOOSE i \in CommonIndexes : \A j \in CommonIndexes : j <= i)

\* the neighbor's items that a ranking scores
ScoredItems ==
    IF args[6] THEN RankNeighbor ELSE RankNeighbor \ SeqToSet(RankQuery)

\* C21: for a neighbor that holds a query item the ranking applies
\* decay = item_rank_weighting_fn(step), step being the 1-based distance
\* from the end of the query to the most recent query item of the neighbor;
\* for a neighbor that holds no query item the decay is 1
C21_NeighborDecay ==
    RankCall =>
        /\ {result.val[k][1] : k \in DOMAIN result.val} = ScoredItems
        /\ \A k \in DOMAIN result.val :
              result.val[k][2] =
                 RMul(args[5], IF CommonIndexes = {} THEN Rat(1)
                               ELSE weight_item_score(args[2], CommonStep))

\* C21, its case: the query [1, 2] and a neighbor holding item 3 only,
\* linear decay: item 3 is scored with the neighbor's similarity times 1
C21_Witness ==
    /\ RankCall
    /\ args = <<"_rank_items", "linear", IntList(<<1, 2>>), IntList(<<3>>),
                Rat(1), TRUE>>
    /\ result.val = <<<<I(3), Rat(1)>>>>

\* C21 as stated: for a neighbor that holds no query item the decay is the
\* weighting function at the step reached after the whole reversed query,
\* query length + 1
C21_Original ==
    RankCall =>
        \A k \in DOMAIN result.val :
            result.val[k][2] =
               RMul(args[5],
                    weight_item_score(args[2],
                        IF CommonIndexes = {} THEN Len(RankQuery) + 1
                        ELSE CommonStep))

\* the items of the query of the last single-session call
QueryItems == SeqToSet(ItemsOf(LastQuery))

Occurrences(seq, x) == Cardinality({i \in DOMAIN seq : seq[i] = x})

\* the votes the neighbors give to item x: each neighbor votes its
\* similarity times its decay once per occurrence of x among its items
VoteSum(neighbors, x) ==
    RSum([k \in DOMAIN neighbors |->
            LET n_items == ItemsOf(Get(self.session_item_map, neighbors[k][1]))
            IN  RMul(Rat(Occurrences(n_items, x)),
                     RMul(neighbors[k][2],
                          NeighborDecay(self, n_items, ItemsOf(LastQuery))))])

\* C22: with return_events_from_session False no item of the query is
\* among the ranked pairs of the list recommend returns: a pair holding a
\* query item is a padding pair, of score 0 and only with recommend_any
\* set; with return_events_from_session True every returned pair, query
\* item or not, carries the sum of the votes of the neighbors that hold it
C22_QueryItems ==
    (SingleCall /\ result.kind = "list") =>
        /\ ~Truthy(self.return_events_from_session) =>
              \A k \in DOMAIN result.val :
                  result.val[k][1] \in QueryItems =>
                      /\ Truthy(self.recommend_any)
                      /\ result.val[k][2] = Rat(0)
        /\ (Truthy(self.return_events_from_session)
               /\ ~Truthy(self.recommend_any)) =>
              \E ord \in Orders(Candidates(self, LastQuery)) :
                  \A k \in DOMAIN result.val :
                      result.val[k][2] =
                         VoteSum(_nearest_neighbors(self, LastQuery, ord).val,
                                 result.val[k][1])

\* C22, its cases: with return_events_from_session False and recommend_any
\* set, a returned list holds a ranked pair followed by a padding pair with
\* an item of the query
C22_Witness ==
    /\ SingleCall /\ result.kind = "list"
    /\ ~Truthy(self.return_events_from_session)
    /\ Truthy(self.recommend_any)
    /\ Len(result.val) = 2
    /\ RLess(Rat(0), result.val[1][2])
    /\ result.val[2][1] \in QueryItems

\* C22, its second case: with return_events_from_session True a returned
\* list holds an item of the query with a score above 0
C22_WitnessReturned ==
    /\ SingleCall /\ result.kind = "list"
    /\ Truthy(self.return_events_from_session)
    /\ \E k \in DOMAIN result.val :
          /\ result.val[k][1] \in QueryItems
          /\ RLess(Rat(0), result.val[k][2])

\* C22 as stated: with return_events_from_session False no item of the
\* query is in the returned list, recommend_any set or not
C22_Original ==
    (SingleCall /\ result.kind = "list"
        /\ ~Truthy(self.return_events_from_session)) =>
        \A k \in DOMAIN result.val : result.val[k][1] \notin QueryItems

\* the state after a single-session recommend on a facade with
\* recommend_any set, n_of_recommendations >= 0 and a non-empty item map
PaddedCall ==
    /\ SingleCall
    /\ result.kind # "raise"
    /\ Truthy(self.recommend_any)
    /\ IntVal(self.n_of_recommendations) >= 0
    /\ self.item_session_map # None
    /\ Keys(self.item_session_map) # {}

\* C23: with recommend_any set, n_of_recommendations = n >= 0 and a
\* non-empty item map, single-session recommend returns a list of exactly n
\* pairs: the ranked items first, then padding pairs whose item is a key of
\* item_session_map and whose score is 0; there is padding only when fewer
\* than n ranked items exist
C23_PaddedToN ==
    PaddedCall =>
        /\ result.kind = "list"
        /\ Len(result.val) = IntVal(self.n_of_recommendations)
        /\ \E ord \in Orders(Candidates(self, LastQuery)) :
              LET ranked == Ranked(self,
                                   _nearest_neighbors(self, LastQuery, ord).val,
                                   LastQuery)
              IN  /\ Len(ranked) <= Len(result.val)
                  /\ SubSeq(result.val, 1, Len(ranked)) = ranked
                  /\ \A k \in (Len(ranked) + 1)..Len(result.val) :
                        /\ result.val[k][1] \in Keys(self.item_session_map)
                        /\ result.val[k][2] = Rat(0)

\* C23, its case: n = 2, one ranked pair and one padding pair
C23_Witness ==
    /\ PaddedCall
    /\ IntVal(self.n_of_recommendations) = 2
    /\ \A ord \in Orders(Candidates(self, LastQuery)) :
          Len(Ranked(self, _nearest_neighbors(self, LastQuery, ord).val,
                     LastQuery)) = 1
    /\ Len(result.val) = 2
    /\ result.val[2][2] = Rat(0)

\* the items map lists a session under an item only when the sessions map
\* holds the session and the session holds the item
ConsistentMaps(m) ==
    /\ m.item_session_map # None
    /\ m.session_item_map # None
    /\ \A item \in Keys(m.item_session_map) :
          \A ses \in SeqToSet(Val(Entry(Get(m.item_session_map, item), 0))) :
              /\ Has(m.session_item_map, ses)
              /\ item \in SeqToSet(ItemsOf(Get(m.session_item_map, ses)))

SharesItem(m, ses, session) ==
    /\ Has(m.session_item_map, ses)
    /\ SeqToSet(ItemsOf(Get(m.session_item_map, ses)))
          \cap SeqToSet(ItemsOf(session)) # {}

\* every session that is scored for the query, and so every neighbor,
\* shares an item with the query
ScoredShareItems(m, session) ==
    \A ord \in Orders(Candidates(m, session)) :
        LET sampled == _possible_neighbors(m, session, ord)
            nearest == _nearest_neighbors(m, session, ord)
        IN  /\ sampled.err = "ok" =>
                 \A k \in DOMAIN sampled.val :
                     SharesItem(m, sampled.val[k], session)
            /\ nearest.err = "ok" =>
                 \A k \in DOMAIN nearest.val :
                     SharesItem(m, nearest.val[k][1], session)

\* C24: on a fitted facade whose items map was derived from the sessions
\* map, or lists each session only under items the session holds, and for
\* any sampling strategy, every session that reaches similarity scoring
\* shares at least one item with the query; a session sharing no item is
\* never a candidate and never a neighbor
C24_CandidatesShareItems ==
    (SingleCall /\ ConsistentMaps(self)) => ScoredShareItems(self, LastQuery)

\* C24, its case: a query is scored against a fitted facade with consistent
\* maps; some stored session is a neighbor and another one, which shares no
\* item with the query, is not
C24_Witness ==
    /\ SingleCall /\ ConsistentMaps(self)
    /\ \E ord \in Orders(Candidates(self, LastQuery)) :
          /\ _nearest_neighbors(self, LastQuery, ord).err = "ok"
          /\ _nearest_neighbors(self, LastQuery, ord).val # <<>>
    /\ \E ses \in Keys(self.session_item_map) :
          ~SharesItem(self, ses, LastQuery)

\* C24 as stated: the same for every fitted facade, the items map derived
\* or supplied by the caller
C24_Original ==
    (SingleCall /\ self.item_session_map # None
        /\ self.session_item_map # None) =>
        ScoredShareItems(self, LastQuery)

\* the state after a common_items sampling: the pool, and the number of
\* distinct items a stored session shares with the query
SamplingCall == op = "_sampling_common" /\ result.err = "ok"
SharedItems(ses) ==
    Cardinality(SeqToSet(ItemsOf(Get(PoolSessions, ses)))
                \cap SeqToSet(Val(args[3])))

PosOf(scored, ses) == CHOOSE i \in DOMAIN scored : scored[i][1] = ses

\* nearest is the head of scored under a stable descending sort by
\* similarity, cut to number_of_neighbors
ClosestOf(m, scored, nearest) ==
    /\ Len(nearest) = Min(IntVal(m.number_of_closest_neighbors), Len(scored))
    /\ \A k \in DOMAIN nearest :
          \E i \in DOMAIN scored : scored[i] = nearest[k]
    /\ \A k \in 1..(Len(nearest) - 1) :
          /\ RLeq(nearest[k + 1][2], nearest[k][2])
          /\ nearest[k + 1][2] = nearest[k][2] =>
                PosOf(scored, nearest[k][1]) < PosOf(scored, nearest[k + 1][1])
    /\ \A i \in DOMAIN scored :
          (\A k \in DOMAIN nearest : nearest[k][1] # scored[i][1]) =>
              \A k \in DOMAIN nearest :
                  /\ RLeq(scored[i][2], nearest[k][2])
                  /\ scored[i][2] = nearest[k][2] =>
                        PosOf(scored, nearest[k][1]) < i

\* C26: the neighbors handed to the ranking are exactly
\* min(number_of_neighbors, number of sampled sessions) sessions in
\* non-increasing order of similarity; no sampled session left out has a
\* higher similarity than one included, and sessions of equal similarity
\* keep the order in which the sampler returned them
C26_NearestNeighbors ==
    (SingleCall /\ self.item_session_map # None) =>
        \A ord \in Orders(Candidates(self, LastQuery)) :
            LET sampled == _possible_neighbors(self, LastQuery, ord)
                nearest == _nearest_neighbors(self, LastQuery, ord)
            IN  (sampled.err = "ok" /\ nearest.err = "ok") =>
                    ClosestOf(self,
                              _calculate_similarity(self, ItemsOf(LastQuery),
                                                    sampled.val).val,
                              nearest.val)

\* C26, its case: number_of_neighbors is 1 and two sampled sessions have
\* the same, highest similarity; the one the sampler returned first is the
\* neighbor
C26_Witness ==
    /\ SingleCall /\ self.item_session_map # None
    /\ IntVal(self.number_of_closest_neighbors) = 1
    /\ \E ord \in Orders(Candidates(self, LastQuery)) :
          LET sampled == _possible_neighbors(self, LastQuery, ord)
              nearest == _nearest_neighbors(self, LastQuery, ord)
          IN  /\ sampled.err = "ok" /\ nearest.err = "ok"
              /\ Len(sampled.val) >= 2
              /\ nearest.val[1][1] = sampled.val[1]
              /\ _calculate_similarity(self, ItemsOf(LastQuery),
                                       sampled.val).val[2][2]
                    = nearest.val[1][2]

\* the attribute of the facade that a parameter of set_model_params sets
FieldOf(name) ==
    CASE name = "number_of_recommendations" -> "n_of_recommendations"
      [] name = "number_of_neighbors" -> "number_of_closest_neighbors"
      [] name = "sample_size" -> "possible_neighbors_sample_size"
      [] name = "weighting_func" -> "weighting_function"
      [] OTHER -> name

\* the step is a recommend call with the settings of args'[2]
RecommendWithSettings == op' = "recommend" /\ args'[2] # None
RecommendWithoutSettings == op' = "recommend" /\ args'[2] = None

\* C27: a settings override passed to a recommend call that returns stays
\* in the facade: every field it names holds the given value after the
\* call and the maps are the same; a later recommend call without settings
\* changes no field, so the value stays until another override
C27_OverridePersists ==
    [][/\ (RecommendWithSettings /\ result'.kind # "raise") =>
             /\ \A k \in Keys(args'[2]) :
                   self'[FieldOf(Val(k))] = Get(args'[2], k)
             /\ self'.session_item_map = self.session_item_map
             /\ self'.item_session_map = self.item_session_map
       /\ RecommendWithoutSettings => self' = self]_vars

\* C27, its case: a recommend call without settings runs with
\* n_of_recommendations 1, the value that only an earlier recommend call
\* with settings stores, and returns one pair
C27_Witness ==
    /\ op = "recommend" /\ args[2] = None
    /\ self.n_of_recommendations = I(1)
    /\ result.kind = "list"
    /\ Len(result.val) = 1

\* the step is a settings override: set_model_params, or recommend with
\* settings
AnyOverrideStep ==
    \/ op' = "set_model_params"
    \/ RecommendWithSettings
OverrideSettingsOf == IF op' = "set_model_params" THEN args'[1] ELSE args'[2]

\* C29 as stated: after a settings override returns normally every field
\* that was not supplied, recommend_any and return_events_from_session
\* included, has the value it had before the call
C29_OnlyNamedFields ==
    [][(AnyOverrideStep /\ result'.kind # "raise") =>
          \A k \in DOMAIN ParamOrder :
              ~Has(OverrideSettingsOf, S(ParamOrder[k])) =>
                  self'[FieldOf(ParamOrder[k])] = self[FieldOf(ParamOrder[k])]
      ]_vars

\* C30 as stated: a settings override that raises TypeError or KeyError
\* has changed no field of the facade
C30_FailedOverrideChangesNothing ==
    [][(AnyOverrideStep /\ result'.kind = "raise"
           /\ result'.err \in {"TypeError", "KeyError"}) =>
          self' = self]_vars


\* the call merge_dicts(dict1, dict2) has returned
MergeCall == op = "merge_dicts" /\ result.err = "ok"
MergedDict == D(result.val)

\* row r of a record, r counted from 1
RowOf(rec, r) == Val(rec[r])

\* the places of the events of item x among the items of a record
EventsOfItem(rec, x) == {j \in DOMAIN RowOf(rec, 1) : RowOf(rec, 1)[j] = x}

\* the earliest timestamp of the events of a record at the places ev
EarliestOf(rec, ev) ==
    RowOf(rec, 2)[CHOOSE j \in ev : \A i \in ev :
                     RLeq(Num(RowOf(rec, 2)[j]), Num(RowOf(rec, 2)[i]))]

\* the timestamps the merged record holds for x: those of vals1, the
\* first event of x taking the earliest timestamp x has in either record;
\* for an id that only vals2 has, the earliest timestamp of x in vals2
MergedStamps(vals1, vals2, x) ==
    LET ev1 == EventsOfItem(vals1, x)
        ev2 == EventsOfItem(vals2, x)
        first == CHOOSE j \in ev1 : \A i \in ev1 : j <= i
        Rest(stamps) == {<<j, stamps[j]>> : j \in ev1 \ {first}}
    IN  IF ev1 = {} THEN {<<0, EarliestOf(vals2, ev2)>>}
        ELSE IF ev2 # {} /\ RLess(Num(EarliestOf(vals2, ev2)),
                                  Num(RowOf(vals1, 2)[first]))
        THEN Rest(RowOf(vals1, 2)) \cup {<<first, EarliestOf(vals2, ev2)>>}
        ELSE Rest(RowOf(vals1, 2)) \cup {<<first, RowOf(vals1, 2)[first]>>}

\* the rows of a record are parallel and ordered by ascending timestamp
OrderedRecord(rec) ==
    /\ \A r \in DOMAIN rec : Len(RowOf(rec, r)) = Len(RowOf(rec, 1))
    /\ \A i, j \in DOMAIN RowOf(rec, 2) :
          i < j => RLeq(Num(RowOf(rec, 2)[i]), Num(RowOf(rec, 2)[j]))

\* the merged record holds the events of vals1, one event for every id
\* that only vals2 has, and for each id the timestamps of MergedStamps
DeduplicatedMerge(rec, vals1, vals2) ==
    \A x \in SeqToSet(RowOf(vals1, 1)) \cup SeqToSet(RowOf(vals2, 1)) :
       /\ Cardinality(EventsOfItem(rec, x)) =
             IF EventsOfItem(vals1, x) # {}
             THEN Cardinality(EventsOfItem(vals1, x)) ELSE 1
       /\ \A t \in SeqToSet(RowOf(rec, 2)) \cup
                   SeqToSet(RowOf(vals1, 2)) \cup SeqToSet(RowOf(vals2, 2)) :
             Cardinality({j \in EventsOfItem(rec, x) :
                             RowOf(rec, 2)[j] = t}) =
             Cardinality({p \in MergedStamps(vals1, vals2, x) : p[2] = t})

\* C28: merge_dicts(d1, d2) returns a map with the keys of both inputs; a
\* key of one input only keeps that input's record; for a key of both the
\* merged record keeps every event of d1's record and adds one event for
\* each id that only d2's record has (an id of d2's record that d1's
\* record already has adds no event, it only lowers the timestamp of the
\* first event of that id), and its rows are parallel and ordered by
\* ascending timestamp
C28_MergeDicts ==
    MergeCall =>
        /\ Keys(MergedDict) = Keys(args[2]) \cup Keys(args[3])
        /\ \A k \in Keys(args[2]) \ Keys(args[3]) :
              Get(MergedDict, k) = Get(args[2], k)
        /\ \A k \in Keys(args[3]) \ Keys(args[2]) :
              Get(MergedDict, k) = Get(args[3], k)
        /\ \A k \in Keys(args[2]) \cap Keys(args[3]) :
              /\ Len(Get(MergedDict, k)) = Len(Get(args[2], k))
              /\ OrderedRecord(Get(MergedDict, k))
              /\ DeduplicatedMerge(Get(MergedDict, k), Get(args[2], k),
                                   Get(args[3], k))

\* the maps of tests/test_merge_dicts.py have been merged: the item "a"
\* that both records of the key "c" hold is kept once
C28_Witness ==
    /\ MergeCall
    /\ args[2] = MergeDict1
    /\ args[3] = MergeDict2
    /\ KeyList(MergedDict) = <<S("a"), S("c"), S("d")>>
    /\ Get(MergedDict, S("c")) =
          <<StrList(<<"a", "b">>), IntList(<<1, 4>>), StrList(<<"l", "a">>),
            L(<<I(1), Float(1, 10)>>)>>
    /\ Get(MergedDict, S("a")) =
          <<IntList(<<7, 0, 1, 2>>), IntList(<<2, 10, 20, 30>>),
            StrList(<<"c", "a", "ac", "as">>),
            L(<<Float(3, 10), Float(1, 10), Float(2, 10), Float(3, 10)>>)>>

\* C28 as stated: for a key of both inputs the merged record holds one
\* entry for every event of both input records
C28_Original ==
    MergeCall =>
        \A k \in Keys(args[2]) \cap Keys(args[3]) :
           \A x \in SeqToSet(RowOf(Get(args[2], k), 1)) \cup
                    SeqToSet(RowOf(Get(args[3], k), 1)) :
              Cardinality(EventsOfItem(Get(MergedDict, k), x)) =
                 Cardinality(EventsOfItem(Get(args[2], k), x)) +
                 Cardinality(EventsOfItem(Get(args[3], k), x))

====
